---- MODULE Spec2Model ----
(***************************************************************************)
(* Contract-change propagation engine (propagate/): dependency waves,      *)
(* dispatcher, status reconciler, live session sync and the orchestrator's *)
(* snapshot-advance gate.                                                  *)
(*                                                                         *)
(* The specifications share the variables:                                 *)
(*   SpecTopo   DependencyGraph.topological_sort on bounded graphs         *)
(*   Spec       one job: dispatched, then met by the sync loop             *)
(*   SpecRecon  one imported session under the status reconciler           *)
(*   SpecHold   the reconciler answered "stopped, PR, CI unknown" each pass*)
(*   SpecOrch   the orchestrator driving waves of jobs to the gate         *)
(***************************************************************************)
EXTENDS Integers, Sequences, FiniteSets, TLC

VARIABLES
    graph,      \* DependencyGraph.nodes: service -> set of depends_on
    tpc,        \* "input" before topological_sort ran, "done" after
    waves,      \* result of topological_sort
    guardrails, \* Guardrails loaded from the environment
    bundles,    \* RepoFixBundle per bundle: declared paths, target_repo form
    jobs,       \* remediation_jobs row per bundle (status "none": no row)
    audit,      \* audit_log rows per job, in insertion order
    dpc,        \* position of each dispatch_one task
    attempt,    \* poll attempts made by each dispatch_one task
    committed,  \* jobs whose row has been committed (visible to other sessions)
    created,    \* number of create-session calls made per bundle
    sessions,   \* payloads of the create-session requests made per bundle
    lastOp,     \* writer that took the last step
    obs,        \* what GitHub and the agent answered in a pass that wrote green
    passes,     \* sync-loop steps taken on the job
    orch,       \* the orchestrator (main): position, wave, poll, flags, outcome
    reached,    \* jobs that have been in a terminal status
    store,      \* contract_snapshots rows (version_hash), in captured_at order
    run,        \* an orchestrator run against the store: position, contract hash, outcome
    http,       \* one _request_with_retry call: position, attempt, responses seen, waits
    sync,       \* live-sync tasks: position, items left in the pass; manual-sync cooldown
    impact,     \* impact resolver: usage rows, inputs, returned records
    cls,        \* classifier: diff list given, ClassifiedChange returned
    dif         \* differ: the two documents, the returned diffs or the exception

topoVars == <<graph, tpc, waves>>
jobVars == <<guardrails, bundles, jobs, audit, dpc, attempt, committed, created, sessions, lastOp,
             obs, passes, orch, reached>>
libVars == <<store, run, http, sync, impact, cls, dif>>
vars == <<graph, tpc, waves, guardrails, bundles, jobs, audit, dpc, attempt, committed, created,
          sessions, lastOp, obs, passes, orch, reached, libVars>>

StoreIdle ==
    /\ store = <<>>
    /\ run = [pc |-> "idle", hash |-> "A", ci |-> FALSE, promoted |-> FALSE, error |-> FALSE]

HttpIdle ==
    http = [pc |-> "request", attempt |-> 0, seen |-> <<>>, waits |-> <<>>, result |-> "none"]

SyncIdle ==
    sync = [at |-> [t \in {"loop", "manual1", "manual2"} |-> "idle"],
            left |-> [t \in {"loop", "manual1", "manual2"} |-> 0],
            cooldown |-> FALSE]

ImpactIdle ==
    impact = [usage |-> {}, changed_routes |-> <<>>, declared_dependents |-> {},
              impacts |-> {}, pc |-> "idle"]

ClassifierIdle ==
    cls = [diffs |-> <<>>, out |-> [is_breaking |-> FALSE, severity |-> "none",
                                    summary |-> <<>>, changed_routes |-> {}],
           pc |-> "idle"]

DifferIdle ==
    dif = [old |-> <<>>, new |-> <<>>, same |-> TRUE, raised |-> FALSE, diffs |-> {},
           pc |-> "idle"]

\* the components outside S are at rest / take no step
IdleExcept(S) ==
    /\ IF "store" \in S THEN TRUE ELSE StoreIdle
    /\ IF "http" \in S THEN TRUE ELSE HttpIdle
    /\ IF "sync" \in S THEN TRUE ELSE SyncIdle
    /\ IF "impact" \in S THEN TRUE ELSE ImpactIdle
    /\ IF "cls" \in S THEN TRUE ELSE ClassifierIdle
    /\ IF "dif" \in S THEN TRUE ELSE DifferIdle

FrameExcept(S) ==
    /\ IF "store" \in S THEN TRUE ELSE UNCHANGED <<store, run>>
    /\ IF "http" \in S THEN TRUE ELSE UNCHANGED http
    /\ IF "sync" \in S THEN TRUE ELSE UNCHANGED sync
    /\ IF "impact" \in S THEN TRUE ELSE UNCHANGED impact
    /\ IF "cls" \in S THEN TRUE ELSE UNCHANGED cls
    /\ IF "dif" \in S THEN TRUE ELSE UNCHANGED dif

LibIdle == IdleExcept({})

(***************************************************************************)
(* Bounds                                                                  *)
(***************************************************************************)
MaxNodes == 3

(***************************************************************************)
(* Dependency graph (propagate/dependency_graph.py)                        *)
(* Service names are 1..MaxNodes; the order of the numbers is the          *)
(* lexicographic order of the names.                                       *)
(***************************************************************************)
Names == 1..MaxNodes

SetMin(S) == CHOOSE x \in S : \A y \in S : x <= y

RECURSIVE Sorted(_)
Sorted(S) == IF S = {} THEN <<>> ELSE <<SetMin(S)>> \o Sorted(S \ {SetMin(S)})

\* in_degree as the code counts it: one increment of in_degree[dep] for
\* every node that lists dep in depends_on (and dep is a node).
InDegree(G) ==
    [n \in DOMAIN G |-> Cardinality({m \in DOMAIN G : n \in G[m]})]

\* A sort that returns no waves instead of raising when no node is ready.
CircularDependency_silent(remaining) == [raised |-> FALSE, waves |-> <<>>, remaining |-> {}]

\* raise ValueError("Circular dependency detected in: {remaining}")
CircularDependency(remaining) == [raised |-> TRUE, waves |-> <<>>, remaining |-> remaining]

Returned(acc) == [raised |-> FALSE, waves |-> acc, remaining |-> {}]

RECURSIVE TopoLoop(_, _, _, _)
TopoLoop(G, in_degree, processed, acc) ==
    IF Cardinality(processed) >= Cardinality(DOMAIN G) THEN Returned(acc)
    ELSE LET current_wave == {n \in DOMAIN G : in_degree[n] = 0 /\ n \notin processed}
         IN IF current_wave = {}
            THEN CircularDependency(DOMAIN G \ processed)
            ELSE TopoLoop(G,
                          [n \in DOMAIN G |->
                              in_degree[n] - Cardinality({s \in current_wave : n \in G[s]})],
                          processed \cup current_wave,
                          Append(acc, Sorted(current_wave)))

topological_sort(G) == TopoLoop(G, InDegree(G), {}, <<>>)

Graphs == UNION {[N -> SUBSET Names] : N \in SUBSET Names}

TopoSort ==
    /\ tpc = "input"
    /\ waves' = topological_sort(graph)
    /\ tpc' = "done"
    /\ UNCHANGED graph

\* ---- dependency order of the waves ----
\* in-graph dependencies of a service
InGraphDeps(G, n) == G[n] \cap DOMAIN G

RECURSIVE ReachFrom(_, _, _)
ReachFrom(G, frontier, seen) ==
    LET nxt == (UNION {InGraphDeps(G, n) : n \in frontier}) \ seen
    IN IF nxt = {} THEN seen ELSE ReachFrom(G, nxt, seen \cup nxt)

Acyclic(G) == \A n \in DOMAIN G : n \notin ReachFrom(G, {n}, {})

WaveOf(w, n) == CHOOSE i \in 1..Len(w) : \E k \in 1..Len(w[i]) : w[i][k] = n

WaveSet(w, i) == {w[i][k] : k \in 1..Len(w[i])}

\* C3: for an acyclic graph, wave 0 is exactly the set of services without
\* in-graph dependency, every service of a later wave has all its in-graph
\* dependencies in strictly earlier waves, and each wave is sorted by name.
C3_WavesFollowDependencies ==
    (tpc = "done" /\ Acyclic(graph) /\ DOMAIN graph # {}) =>
        /\ ~waves.raised
        /\ WaveSet(waves.waves, 1) = {n \in DOMAIN graph : InGraphDeps(graph, n) = {}}
        /\ \A n \in DOMAIN graph : \A d \in InGraphDeps(graph, n) :
               WaveOf(waves.waves, d) < WaveOf(waves.waves, n)
        /\ \A i \in 1..Len(waves.waves) :
               waves.waves[i] = Sorted(WaveSet(waves.waves, i))

\* services on a dependency cycle (a service that depends on itself included)
OnCycle(G) == {n \in DOMAIN G : n \in ReachFrom(G, {n}, {})}

\* C20: for a graph with a dependency cycle, topological_sort raises the
\* circular-dependency error; the set it names is not empty, consists of
\* services of the graph and holds every service on a cycle.
C20_CycleRaises ==
    (tpc = "done" /\ ~Acyclic(graph)) =>
        /\ waves.raised
        /\ waves.remaining # {}
        /\ waves.remaining \subseteq DOMAIN graph
        /\ OnCycle(graph) \subseteq waves.remaining

\* the error was raised after a wave had been formed: a service outside the
\* cycle is not in the set the error names
C20_Witness ==
    /\ tpc = "done" /\ ~Acyclic(graph)
    /\ waves.raised
    /\ waves.remaining # DOMAIN graph

(***************************************************************************)
(* Remediation jobs, audit rows, guardrails                                *)
(***************************************************************************)
NumBundles == 2                 \* bundles of one orchestrator run
MaxAudit == 1                   \* audit rows the reconciler writes per job in SpecRecon
MAX_POLL_ATTEMPTS == 2          \* dispatcher polls per job (120 in the source)
WAVE_MAX_POLLS == 2             \* polls of one wave wait (60 in the source)
MaxStreak == 7                  \* reconciler passes in SpecHold
MaxSyncs == 2                   \* sync-loop steps after the dispatch in Spec
CI_UNKNOWN_MAX_ATTEMPTS == 5

Bundles == 1..NumBundles
PRs == {1, 2}                   \* pull requests of the target repository; 2 is the newer
NoPR == 0                       \* pr_url is None / no pull_request in the output
NoRun == 0                      \* devin_run_id is None

JobStatus == {"queued", "running", "pr_opened", "ci_failed", "needs_human", "green"}
TERMINAL_STATUSES == {"green", "ci_failed", "needs_human"}

\* error_summary "" stands for None
NoJob == [status |-> "none", devin_run_id |-> NoRun, pr_url |-> NoPR,
          error_summary |-> "", target_repo |-> "url"]

Row(old_status, new_status, detail) ==
    [old_status |-> old_status, new_status |-> new_status, detail |-> detail]

\* _log_transition: db.add(AuditLog(...))
_log_transition(rows, old_status, new_status, detail) ==
    Append(rows, Row(old_status, new_status, detail))

\* Paths are sequences of segments; a protected prefix "infra/" is <<"infra">>.
CleanPath == <<"src", "client.py">>
ProtectedFile == <<"infra", "main.tf">>
FileLists == {<<>>, <<CleanPath>>, <<ProtectedFile>>}

protected_paths == << <<"infra">>, <<".github", "workflows">>, <<"terraform">>, <<"k8s">> >>

StartsWith(path, prefix) ==
    Len(path) > Len(prefix) /\ SubSeq(path, 1, Len(prefix)) = prefix

\* Guardrails.validate_paths: one violation per (path, protected prefix) match
validate_paths(paths) ==
    {<<i, k>> \in (1..Len(paths)) \X (1..Len(protected_paths)) :
        StartsWith(paths[i], protected_paths[k])}

(***************************************************************************)
(* Answers of the agent API and of GitHub for one job's session            *)
(***************************************************************************)
DevinStatuses == {"running", "blocked", "stopped", "failed"}
MetaStates == {"open", "closed", "merged", "unknown"}   \* "closed" is closed and not merged
CheckResults == {"passed", "failed", "pending", "unknown"}

World(devin, out_pr, out_ci, out_files, meta1, meta2, checks, files) ==
    [devin |-> devin, out_pr |-> out_pr, out_ci |-> out_ci, out_files |-> out_files,
     meta1 |-> meta1, meta2 |-> meta2, checks |-> checks, files |-> files]

\* the agent reports a status and possibly a PR, nothing else; GitHub knows PR 1
Quiet(devin, out_pr, meta1) ==
    World(devin, out_pr, "absent", <<>>, meta1, "closed", "unknown", <<>>)

\* get_session raised
ErrWorld == Quiet("err", NoPR, "unknown")

\* The answers a reconciler pass can be given, one representative per
\* combination of the fields the code reads:
\*   get_session raised: nothing else is read;
\*   agent neither blocked nor stopped: only the PR url, its metadata and the
\*     emptiness of structured_output are read;
\*   the agent lists changed files: GET /pulls/{n}/files is not called (it is
\*     kept where its answer would have differed from the agent's list);
\*   GitHub reports a CI result: the agent's ci_status is not read (kept for
\*     "passed", dropped for "failed");
\*   blocked is treated as stopped but for one message: it comes with an
\*     agent that reports neither CI nor files.
FilePairs ==
    {<<<<>>, f>> : f \in FileLists}
    \cup {<<<<CleanPath>>, <<>>>>, <<<<CleanPath>>, <<ProtectedFile>>>>,
          <<<<ProtectedFile>>, <<>>>>}

Worlds ==
    {ErrWorld}
    \cup {World(d, NoPR, oc, <<>>, "unknown", "closed", "unknown", <<>>) :
             d \in {"running", "failed"}, oc \in {"absent", "passed"}}
    \cup {World(d, 1, oc, <<>>, m, "closed", "unknown", <<>>) :
             d \in {"running", "failed"}, oc \in {"absent", "passed"}, m \in MetaStates}
    \cup {World("blocked", p, "absent", <<>>, m1, m2, c, f) :
             p \in {NoPR, 1}, m1 \in MetaStates, m2 \in {"open", "closed"},
             c \in CheckResults, f \in FileLists}
    \cup {World("stopped", p, oc, ff[1], m1, m2, c, ff[2]) :
             p \in {NoPR, 1}, oc \in {"absent", "passed"}, ff \in FilePairs,
             m1 \in MetaStates, m2 \in {"open", "closed"}, c \in CheckResults}
    \cup {World("stopped", p, "failed", ff[1], mc[1], m2, mc[2], ff[2]) :
             p \in {NoPR, 1}, ff \in FilePairs, m2 \in {"open", "closed"},
             mc \in {x \in MetaStates \X CheckResults : x[1] = "unknown" \/ x[2] = "unknown"}}

Meta(w, pr) == IF pr = 1 THEN w.meta1 ELSE IF pr = 2 THEN w.meta2 ELSE "unknown"

StructuredOutputNonEmpty(w) ==
    w.out_pr # NoPR \/ w.out_ci # "absent" \/ w.out_files # <<>>

\* A fetch that reports check runs still in progress as "unknown".
_fetch_github_ci_status_pending_unknown(w, pr) ==
    IF pr = NoPR THEN [passed |-> FALSE, status |-> "unknown"]
    ELSE IF Meta(w, pr) = "closed" THEN [passed |-> FALSE, status |-> "closed"]
    ELSE IF Meta(w, pr) = "merged" THEN [passed |-> TRUE, status |-> "merged"]
    ELSE IF Meta(w, pr) = "unknown" THEN [passed |-> FALSE, status |-> "unknown"]
    ELSE [passed |-> (w.checks = "passed"),
          status |-> IF w.checks = "pending" THEN "unknown" ELSE w.checks]

\* _fetch_github_ci_status: (ci_passed, ci_status)
_fetch_github_ci_status(w, pr) ==
    IF pr = NoPR THEN [passed |-> FALSE, status |-> "unknown"]
    ELSE IF Meta(w, pr) = "closed" THEN [passed |-> FALSE, status |-> "closed"]
    ELSE IF Meta(w, pr) = "merged" THEN [passed |-> TRUE, status |-> "merged"]
    ELSE IF Meta(w, pr) = "unknown" THEN [passed |-> FALSE, status |-> "unknown"]
    ELSE [passed |-> (w.checks = "passed"), status |-> w.checks]

\* _fetch_pr_changed_files
_fetch_pr_changed_files(w, pr) == IF pr = NoPR THEN <<>> ELSE w.files

SetMax(S) == CHOOSE x \in S : \A y \in S : x >= y

\* _find_replacement_open_pr: the open PRs of the repository other than the
\* excluded one; without a head-ref, title or author match the first listed
\* (most recently created) is taken.
_find_replacement_open_pr(w, parses, exclude) ==
    IF ~parses THEN NoPR
    ELSE LET candidates == {p \in PRs : Meta(w, p) = "open" /\ p # exclude}
         IN IF candidates = {} THEN NoPR ELSE SetMax(candidates)

(***************************************************************************)
(* Status reconciler: sync_job_statuses, body of the per-job loop          *)
(* (propagate/check_status.py).  s is [job, audit]; w the answers of the   *)
(* agent and of GitHub; ci_required the guardrail flag.                    *)
(***************************************************************************)
ClientConfigured == TRUE        \* DevinClient() did not raise: the API key is set

Transition(s, new_status, error_summary, detail) ==
    [job |-> [s.job EXCEPT !.status = new_status, !.error_summary = error_summary],
     audit |-> _log_transition(s.audit, s.job.status, new_status, detail)]

CIUnknownDetails ==
    {"CI status unknown, holding at PR_OPENED", "CI status unknown after checks - failing closed"}

\* select count(AuditLog.id) where detail contains "CI status unknown"
ci_unknown_count(rows) ==
    Cardinality({i \in 1..Len(rows) : rows[i].detail \in CIUnknownDetails})

CIStatusSummary(ci_status) ==
    CASE ci_status = "failed" -> "CI status: failed"
      [] ci_status = "pending" -> "CI status: pending"
      [] ci_status = "closed" -> "CI status: closed"
      [] OTHER -> "CI status: other"

NoPRSummary(devin_status) ==
    CASE devin_status = "blocked" -> "Devin blocked without PR"
      [] devin_status = "stopped" -> "Devin stopped without PR"
      [] devin_status = "completed" -> "Devin completed without PR"
      [] OTHER -> "Devin  without PR"

\* lines 381-403: the PR in question is closed and not merged
ClosedBranch(s) ==
    IF \/ s.job.status # "needs_human"
       \/ s.job.error_summary # "PR closed without merge"
       \/ s.job.pr_url # NoPR
    THEN LET t == Transition(s, "needs_human", "PR closed without merge",
                             "PR closed without merge")
         IN [t EXCEPT !.job.pr_url = NoPR]
    ELSE s

\* lines 412-475: ci_required and CI has not passed
CINotPassedBranch(s, ci_status) ==
    IF ci_status = "unknown"
    THEN IF ci_unknown_count(s.audit) >= CI_UNKNOWN_MAX_ATTEMPTS
         THEN IF \/ s.job.status # "ci_failed"
                 \/ s.job.error_summary # "CI status unknown after checks - failing closed"
              THEN Transition(s, "ci_failed",
                              "CI status unknown after checks - failing closed",
                              "CI status unknown after checks - failing closed")
              ELSE s
         ELSE IF s.job.status # "pr_opened"
              THEN Transition(s, "pr_opened", "", "CI status unknown, holding at PR_OPENED")
              ELSE s
    ELSE IF \/ s.job.status # "ci_failed"
            \/ s.job.error_summary # CIStatusSummary(ci_status)
         THEN Transition(s, "ci_failed", CIStatusSummary(ci_status), "PR exists but CI failed")
         ELSE s

\* lines 515-523
GreenBranch(s) ==
    IF s.job.status # "green" \/ s.job.error_summary # ""
    THEN Transition(s, "green", "", "PR | merge")
    ELSE s

\* lines 476-523: CI passed (or ci_required is off)
PathCheckBranch(s, w) ==
    LET pr_changed_files ==
            IF w.out_files # <<>> THEN w.out_files
            ELSE _fetch_pr_changed_files(w, s.job.pr_url)
    IN IF pr_changed_files # <<>>
       THEN IF validate_paths(pr_changed_files) # {}
            THEN IF \/ s.job.status # "needs_human"
                    \/ s.job.error_summary # "PR touches protected paths"
                 THEN Transition(s, "needs_human", "PR touches protected paths",
                                 "Post-execution path violation")
                 ELSE s
            ELSE GreenBranch(s)
       ELSE IF Len(protected_paths) > 0
            THEN IF \/ s.job.status # "needs_human"
                    \/ s.job.error_summary # "Cannot verify PR changed files against protected paths"
                 THEN Transition(s, "needs_human",
                                 "Cannot verify PR changed files against protected paths",
                                 "Path validation fail-closed: changed files unavailable")
                 ELSE s
            ELSE GreenBranch(s)

\* A reconciler that takes the agent's self-reported ci_status whenever there
\* is one, whatever GitHub answered.
ResolveCI_agent_first(gh, out_ci) ==
    IF out_ci # "absent"
    THEN [passed |-> out_ci \in {"passed", "success"}, status |-> out_ci]
    ELSE gh

\* lines 406-411: the agent's self-reported ci_status is the fallback when
\* GitHub's answer is "unknown"
ResolveCI(gh, out_ci) ==
    IF gh.status = "unknown"
    THEN LET fallback == IF out_ci = "absent" THEN "unknown" ELSE out_ci
         IN [passed |-> fallback \in {"passed", "success"}, status |-> fallback]
    ELSE gh

\* lines 405-523: the job holds a PR
CIBranch(s, w, ci_required) ==
    LET ci == ResolveCI(_fetch_github_ci_status(w, s.job.pr_url), w.out_ci)
    IN IF ci_required /\ ~ci.passed
       THEN CINotPassedBranch(s, ci.status)
       ELSE PathCheckBranch(s, w)

\* lines 524-543: no PR on the job
NoPRBranch(s, w, devin_status) ==
    LET replacement_pr_url ==
            _find_replacement_open_pr(w, s.job.target_repo = "url", NoPR)
    IN IF replacement_pr_url # NoPR
       THEN LET t == Transition(s, "pr_opened", "", "Found PR")
            IN [t EXCEPT !.job.pr_url = replacement_pr_url]
       ELSE IF \/ s.job.status # "needs_human"
               \/ s.job.error_summary # NoPRSummary(devin_status)
            THEN Transition(s, "needs_human", NoPRSummary(devin_status),
                            NoPRSummary(devin_status))
            ELSE s

\* lines 357-543: the agent is blocked or stopped
StoppedBranch(s, w, devin_status, candidate_pr_url, candidate_pr_metadata, ci_required) ==
    LET url0 == IF candidate_pr_url # NoPR THEN candidate_pr_url ELSE s.job.pr_url
        meta0 == IF candidate_pr_url # NoPR THEN candidate_pr_metadata
                 ELSE IF url0 # NoPR THEN Meta(w, url0) ELSE "unknown"
        replacement_pr_url ==
            IF url0 # NoPR /\ meta0 = "closed"
            THEN _find_replacement_open_pr(w, TRUE, url0) ELSE NoPR
        s1 == IF replacement_pr_url # NoPR
              THEN [s EXCEPT !.job.pr_url = replacement_pr_url] ELSE s
        pr_state_url == IF replacement_pr_url # NoPR THEN replacement_pr_url ELSE url0
        pr_state_metadata ==
            IF replacement_pr_url # NoPR THEN Meta(w, replacement_pr_url) ELSE meta0
    IN IF pr_state_url # NoPR /\ pr_state_metadata = "closed"
       THEN ClosedBranch(s1)
       ELSE IF s1.job.pr_url # NoPR
            THEN CIBranch(s1, w, ci_required)
            ELSE NoPRBranch(s1, w, devin_status)

\* lines 308-548: one iteration of `for job in jobs`
SyncJob(s, w, ci_required) ==
    LET polled == s.job.devin_run_id # NoRun /\ ClientConfigured /\ w.devin # "err"
        devin_status == IF polled THEN w.devin ELSE ""
        structured_output == polled /\ StructuredOutputNonEmpty(w)
        has_pr_info == structured_output /\ w.out_pr # NoPR
        candidate_pr_url == IF has_pr_info THEN w.out_pr ELSE NoPR
        candidate_pr_metadata ==
            IF has_pr_info THEN Meta(w, candidate_pr_url) ELSE "unknown"
        next_pr_url == IF candidate_pr_metadata # "closed" THEN candidate_pr_url ELSE NoPR
        s1 == IF has_pr_info THEN [s EXCEPT !.job.pr_url = next_pr_url] ELSE s
        s2 == IF /\ structured_output
                 /\ s1.job.pr_url # NoPR
                 /\ s1.job.status \notin {"pr_opened", "green"}
                 /\ devin_status \notin {"stopped", "blocked"}
              THEN Transition(s1, "pr_opened", "", "PR")
              ELSE s1
    IN IF devin_status \in {"blocked", "stopped"} \/ (devin_status = "" /\ ~ClientConfigured)
       THEN StoppedBranch(s2, w, devin_status, candidate_pr_url, candidate_pr_metadata,
                          ci_required)
       ELSE s2

\* the select at lines 289-294: jobs with a run id or a PR url
Selected(job) == job.status # "none" /\ (job.devin_run_id # NoRun \/ job.pr_url # NoPR)

(***************************************************************************)
(* Live session sync: sync_devin_sessions, body of the per-session loop    *)
(* (propagate/sync_devin.py)                                               *)
(***************************************************************************)
ForeignRun == NumBundles + 1    \* a session this dispatcher did not create

\* _map_status
_map_status(devin_status, pr_url) ==
    IF devin_status = "running" THEN "running"
    ELSE IF devin_status \in {"queued", "created", "in_progress"} THEN "running"
    ELSE IF devin_status = "blocked"
         THEN (IF pr_url # NoPR THEN "pr_opened" ELSE "needs_human")
    ELSE IF devin_status \in {"failed", "error", "cancelled"} THEN "ci_failed"
    ELSE IF devin_status \in {"stopped", "finished", "completed", "succeeded", "success"}
         THEN (IF pr_url # NoPR THEN "pr_opened" ELSE "green")
    ELSE "running"

\* _should_attach_pr
_should_attach_pr(raw_pr_url, metadata) == raw_pr_url # NoPR /\ metadata # "closed"

\* _active_pr_url: GitHub reports a merged PR with state "closed"
_active_pr_url(raw_pr_url, metadata) ==
    IF raw_pr_url = NoPR THEN NoPR
    ELSE IF metadata = "open" THEN raw_pr_url
    ELSE IF metadata \in {"closed", "merged"} THEN NoPR
    ELSE raw_pr_url

\* lines 455-460
MappedStatus(w) ==
    LET metadata == IF w.out_pr # NoPR THEN Meta(w, w.out_pr) ELSE "unknown"
        mapped == _map_status(w.devin, _active_pr_url(w.out_pr, metadata))
    IN IF w.out_pr # NoPR /\ metadata = "closed"
       THEN IF w.devin = "blocked" THEN "needs_human"
            ELSE IF w.devin \in {"stopped", "finished", "completed", "succeeded", "success"}
                 THEN "ci_failed"
            ELSE mapped
       ELSE mapped

AttachedPR(w) ==
    IF _should_attach_pr(w.out_pr, IF w.out_pr # NoPR THEN Meta(w, w.out_pr) ELSE "unknown")
    THEN w.out_pr ELSE NoPR

\* lines 469-478: the session is not tracked yet
ImportJob(w, session_id) ==
    [status |-> MappedStatus(w), devin_run_id |-> session_id, pr_url |-> AttachedPR(w),
     error_summary |-> "", target_repo |-> "url"]

\* lines 501-522: the session (or its repository) is already tracked
UpdateJob(job, w, session_id) ==
    [job EXCEPT !.devin_run_id = session_id,
                !.target_repo = "url",
                !.status = MappedStatus(w),
                !.pr_url = AttachedPR(w)]

\* what sync_devin_sessions reads of the answers: the session status, the PR
\* url of the output and, when there is one, the PR's metadata
LiveWorlds ==
    {Quiet(d, NoPR, "unknown") : d \in DevinStatuses}
    \cup {Quiet(d, 1, m) : d \in DevinStatuses, m \in MetaStates}

(***************************************************************************)
(* Dispatcher: dispatch_remediation_jobs / dispatch_one                    *)
(* (propagate/dispatcher.py)                                               *)
(***************************************************************************)
\* asyncio.Semaphore(guardrails.max_parallel)
Holding == {b \in Bundles : dpc[b] \in {"holding", "polling", "flushing"}}

\* what one get_session poll of the dispatcher reads: the status and the PR
\* url of the output, or the call raises
PollAnswers ==
    {Quiet(d, p, "unknown") : d \in DevinStatuses, p \in {NoPR, 1}} \cup {ErrWorld}

\* lines 71-81
DispatchCreate(b) ==
    /\ dpc[b] = "idle"
    /\ jobs[b].status = "none"
    /\ jobs' = [jobs EXCEPT ![b] =
                   [status |-> "queued", devin_run_id |-> NoRun, pr_url |-> NoPR,
                    error_summary |-> "", target_repo |-> bundles[b].target_repo]]
    /\ audit' = [audit EXCEPT ![b] = _log_transition(@, "none", "queued", "Job created")]
    /\ dpc' = [dpc EXCEPT ![b] = "queued"]
    /\ lastOp' = "dispatcher"
    /\ UNCHANGED <<attempt, created, sessions, committed>>

\* A dispatcher whose dispatch_one tasks do not wait for a semaphore permit.
DispatchAcquire_no_semaphore(b, max_parallel) ==
    /\ dpc[b] = "queued"
    /\ jobs' = [jobs EXCEPT ![b].status = "running"]
    /\ audit' = [audit EXCEPT ![b] =
                    _log_transition(@, jobs[b].status, "running", "Dispatching to Devin")]
    /\ dpc' = [dpc EXCEPT ![b] = "holding"]
    /\ lastOp' = "dispatcher"
    /\ UNCHANGED <<attempt, created, sessions, committed>>

\* lines 83-90: async with semaphore; QUEUED -> RUNNING
DispatchAcquire(b, max_parallel) ==
    /\ dpc[b] = "queued"
    /\ Cardinality(Holding) < max_parallel
    /\ jobs' = [jobs EXCEPT ![b].status = "running"]
    /\ audit' = [audit EXCEPT ![b] =
                    _log_transition(@, jobs[b].status, "running", "Dispatching to Devin")]
    /\ dpc' = [dpc EXCEPT ![b] = "holding"]
    /\ lastOp' = "dispatcher"
    /\ UNCHANGED <<attempt, created, sessions, committed>>

\* RepoFixBundle.prompt and RepoFixBundle.bundle_hash of bundle b
prompt(b) == <<"prompt", b>>
bundle_hash(b) == <<"hash", b>>

\* idempotency_key=None
NoKey == "None"

\* DevinClient.create_session: the JSON payload of POST /sessions
create_session(prompt_, idempotency_key) ==
    IF idempotency_key # NoKey
    THEN [prompt |-> prompt_, idempotency_key |-> idempotency_key]
    ELSE [prompt |-> prompt_]

\* line 92: client.create_session(bundle.prompt)
DispatchRequest(b) == create_session(prompt(b), NoKey)

\* A dispatch_one that does not catch the exception of create_session: the
\* job is left as it was when the call was made.
CreateSession_uncaught(b) ==
    /\ dpc[b] = "holding"
    /\ created' = [created EXCEPT ![b] = @ + 1]
    /\ sessions' = [sessions EXCEPT ![b] = Append(@, DispatchRequest(b))]
    /\ \/ /\ jobs' = [jobs EXCEPT ![b].devin_run_id = b]
          /\ dpc' = [dpc EXCEPT ![b] = "polling"]
          /\ UNCHANGED audit
       \/ /\ dpc' = [dpc EXCEPT ![b] = "flushing"]
          /\ UNCHANGED <<jobs, audit>>
    /\ lastOp' = "dispatcher"
    /\ UNCHANGED <<attempt, committed>>

\* lines 92-94 and 152-158: client.create_session returns a session or raises
CreateSession(b) ==
    /\ dpc[b] = "holding"
    /\ created' = [created EXCEPT ![b] = @ + 1]
    /\ sessions' = [sessions EXCEPT ![b] = Append(@, DispatchRequest(b))]
    /\ \/ /\ jobs' = [jobs EXCEPT ![b].devin_run_id = b]
          /\ dpc' = [dpc EXCEPT ![b] = "polling"]
          /\ UNCHANGED audit
       \/ /\ jobs' = [jobs EXCEPT ![b].status = "needs_human",
                                  ![b].error_summary = "create_session error"]
          /\ audit' = [audit EXCEPT ![b] =
                          _log_transition(@, jobs[b].status, "needs_human",
                                          "create_session error")]
          /\ dpc' = [dpc EXCEPT ![b] = "flushing"]
    /\ lastOp' = "dispatcher"
    /\ UNCHANGED <<attempt, committed>>

\* lines 110-121: a pull_request in the output
PollPR(s, w) ==
    IF w.out_pr # NoPR
    THEN LET s1 == [s EXCEPT !.job.pr_url = w.out_pr]
         IN IF s1.job.status # "pr_opened"
            THEN [s1 EXCEPT !.job.status = "pr_opened",
                            !.audit = _log_transition(@, s1.job.status, "pr_opened", "PR")]
            ELSE s1
    ELSE s

\* lines 123-142: terminal states of the poll loop
PollTerminal(s, w) ==
    IF w.devin = "blocked"
    THEN Transition(s, "needs_human", "Devin session blocked", "Devin session blocked")
    ELSE IF w.devin = "stopped"
    THEN IF s.job.pr_url # NoPR
         THEN [s EXCEPT !.job.status = "green",
                        !.audit = _log_transition(@, s.job.status, "green",
                                                  "CI passed, PR merged")]
         ELSE Transition(s, "ci_failed", "Devin session stopped without creating a PR",
                         "Devin session stopped without creating a PR")
    ELSE s

\* lines 144-150: the for-else after the last attempt
PollTimeout(s) ==
    Transition(s, "needs_human", "Polling timed out", "Polling timed out after max attempts")

\* lines 99-150: one iteration of the poll loop, get_session answering from A
DispatchPoll(b, A) ==
    /\ dpc[b] = "polling"
    /\ attempt[b] < MAX_POLL_ATTEMPTS
    /\ \E w \in A :
          LET s0 == [job |-> jobs[b], audit |-> audit[b]]
              s1 == IF w.devin = "err" THEN s0 ELSE PollTerminal(PollPR(s0, w), w)
              break == w.devin \in {"blocked", "stopped"}
              exhausted == ~break /\ attempt[b] + 1 >= MAX_POLL_ATTEMPTS
              s2 == IF exhausted THEN PollTimeout(s1) ELSE s1
          IN /\ jobs' = [jobs EXCEPT ![b] = s2.job]
             /\ audit' = [audit EXCEPT ![b] = s2.audit]
             /\ attempt' = [attempt EXCEPT ![b] = IF break THEN @ ELSE @ + 1]
             /\ dpc' = [dpc EXCEPT ![b] = IF break \/ exhausted THEN "flushing" ELSE @]
    /\ lastOp' = "dispatcher"
    /\ UNCHANGED <<created, sessions, committed>>

\* lines 160-162: flush, leave the semaphore block, return the job
DispatchReturn(b) ==
    /\ dpc[b] = "flushing"
    /\ dpc' = [dpc EXCEPT ![b] = "returned"]
    /\ attempt' = [attempt EXCEPT ![b] = 0]       \* the locals of dispatch_one are gone
    /\ lastOp' = "dispatcher"
    /\ UNCHANGED <<jobs, audit, created, sessions, committed>>

\* A dispatcher that does not await its dispatch_one tasks.
GatherDone_not_awaited(wave) == TRUE

\* line 165: asyncio.gather returns when every dispatch_one task has returned
GatherDone(wave) == \A b \in wave : dpc[b] = "returned"

\* lines 165-174: gather has all results; db.commit()
DispatchCommit(wave) ==
    /\ wave # {}
    /\ GatherDone(wave)
    /\ ~(wave \subseteq committed)
    /\ committed' = committed \cup wave
    /\ lastOp' = "dispatcher"
    /\ UNCHANGED <<jobs, audit, dpc, attempt, created, sessions>>

(***************************************************************************)
(* Steps of the reconciler and of the live sync on one committed job       *)
(***************************************************************************)
\* check_status.py lines 307-548 for job b, under the answers w
SyncJobStatuses(b, w) ==
    /\ b \in committed
    /\ Selected(jobs[b])
    /\ LET s1 == SyncJob([job |-> jobs[b], audit |-> audit[b]], w, guardrails.ci_required)
       IN /\ jobs' = [jobs EXCEPT ![b] = s1.job]
          /\ audit' = [audit EXCEPT ![b] = s1.audit]
    /\ lastOp' = "sync_job_statuses"
    /\ UNCHANGED <<dpc, attempt, created, sessions, committed>>

\* sync_devin.py lines 462-499: no job has the session id or the repository
ImportSession(b, w, session_id) ==
    /\ jobs[b].status = "none"
    /\ dpc[b] = "idle"
    /\ session_id = ForeignRun
    /\ jobs' = [jobs EXCEPT ![b] = ImportJob(w, session_id)]
    /\ committed' = committed \cup {b}
    /\ lastOp' = "sync_devin_sessions"
    /\ UNCHANGED <<audit, dpc, attempt, created, sessions>>

\* sync_devin.py lines 420-453, 501-522: a job is found by session id, or by
\* repository (and takes over the session id)
UpdateSession(b, w, session_id) ==
    /\ b \in committed
    /\ \/ jobs[b].devin_run_id = session_id
       \/ jobs[b].devin_run_id # session_id /\ session_id = ForeignRun
          /\ jobs[b].target_repo = "url"
    /\ jobs' = [jobs EXCEPT ![b] = UpdateJob(jobs[b], w, session_id)]
    /\ lastOp' = "sync_devin_sessions"
    /\ UNCHANGED <<audit, dpc, attempt, created, sessions, committed>>

\* details of the rows the dispatcher writes; every other row is the reconciler's
DispatcherDetails ==
    {"Job created", "Dispatching to Devin", "create_session error", "PR",
     "Devin session blocked", "CI passed, PR merged",
     "Devin session stopped without creating a PR", "Polling timed out after max attempts"}

ReconcilerRows(rows) ==
    Cardinality({i \in 1..Len(rows) : rows[i].detail \notin DispatcherDetails})

(***************************************************************************)
(* Spec: one remediation job under the dispatcher, the reconciler and the  *)
(* live sync                                                               *)
(***************************************************************************)
BundlePaths == {<<CleanPath>>, <<ProtectedFile>>}

BundleConfigs == [paths : BundlePaths, target_repo : {"url"}]

OrchIdle == [pc |-> "idle", no_wait |-> FALSE, wave_idx |-> 0, poll |-> 0, ids |-> {},
             timed_out |-> {}, snapshot |-> FALSE, exit |-> 0,
             dry_run |-> FALSE, ci |-> FALSE, old_snapshot |-> TRUE, same_hash |-> FALSE,
             baseline |-> FALSE, step |-> 0, raised |-> ""]

NoObs == [set_green |-> FALSE, gh_ci |-> "none", agent_ci |-> "none", gh_files |-> <<>>]

JobInit ==
    /\ jobs = [b \in Bundles |-> NoJob]
    /\ audit = [b \in Bundles |-> <<>>]
    /\ dpc = [b \in Bundles |-> "idle"]
    /\ attempt = [b \in Bundles |-> 0]
    /\ created = [b \in Bundles |-> 0]
    /\ sessions = [b \in Bundles |-> <<>>]
    /\ committed = {}
    /\ lastOp = "init"
    /\ obs = NoObs
    /\ passes = 0
    /\ orch = OrchIdle
    /\ reached = {}

TopoIdle ==
    /\ graph = [n \in {} |-> {}]
    /\ tpc = "idle"
    /\ waves = Returned(<<>>)

Init ==
    /\ TopoIdle
    /\ guardrails = [ci_required |-> TRUE, max_parallel |-> 1]
    /\ bundles \in [Bundles -> BundleConfigs]
    /\ \A b \in Bundles : b # 1 => bundles[b] = [paths |-> <<CleanPath>>, target_repo |-> "url"]
    /\ JobInit
    /\ LibIdle

Dispatch(b) ==
    /\ \/ DispatchCreate(b)
       \/ DispatchAcquire(b, guardrails.max_parallel)
       \/ CreateSession(b)
       \/ DispatchPoll(b, PollAnswers)
       \/ DispatchReturn(b)
       \/ DispatchCommit({b})
    /\ UNCHANGED passes

\* the answers a pass is given here: the agent reports neither CI nor files,
\* GitHub lists the PR's files (none under a protected prefix) or fails to
LifeWorlds ==
    {World(d, p, "absent", <<>>, m, "closed", c, f) :
        d \in {"blocked", "stopped"}, p \in {NoPR, 1}, m \in MetaStates,
        c \in CheckResults, f \in {<<>>, <<CleanPath>>}}
    \cup {Quiet(d, NoPR, "unknown") : d \in {"running", "failed"}}
    \cup {Quiet(d, 1, m) : d \in {"running", "failed"}, m \in MetaStates}
    \cup {ErrWorld}

Reconcile ==
    /\ passes < MaxSyncs
    /\ \E w \in LifeWorlds : SyncJobStatuses(1, w)
    /\ passes' = passes + 1

\* the live sync meets the session of the job, or another session on its repository
LiveSync ==
    /\ passes < MaxSyncs
    /\ \E w \in LiveWorlds : \E session_id \in {1, ForeignRun} : UpdateSession(1, w, session_id)
    /\ passes' = passes + 1

Next ==
    /\ \/ Dispatch(1)
       \/ Reconcile
       \/ LiveSync
    /\ UNCHANGED <<graph, tpc, waves, guardrails, bundles, obs, orch, reached, libVars>>

Spec == Init /\ [][Next]_vars

\* sync_devin.py lines 524-528: the update of an existing job queues a
\* pr-opened event (emitted after the commit, lines 552-553)
UpdateEmitsPROpened(job, w) ==
    /\ MappedStatus(w) = "pr_opened"
    /\ _active_pr_url(w.out_pr, IF w.out_pr # NoPR THEN Meta(w, w.out_pr) ELSE "unknown") # NoPR
    /\ job.status # "pr_opened"

\* sync_devin.py line 481: the import of an untracked session queues one
ImportEmitsPROpened(w) ==
    /\ MappedStatus(w) = "pr_opened"
    /\ _active_pr_url(w.out_pr, IF w.out_pr # NoPR THEN Meta(w, w.out_pr) ELSE "unknown") # NoPR

\* C25: a live sync of a tracked job whose stored pr_url already is the
\* session's PR queues no pr-opened webhook, whatever status it writes.
C25_NoPROpenedForSamePR ==
    (1 \in committed /\ jobs[1].pr_url # NoPR) =>
        \A w \in LiveWorlds :
            w.out_pr = jobs[1].pr_url => ~UpdateEmitsPROpened(jobs[1], w)

\* C4: a bundle that lists a path under a protected prefix never has a
\* create-session call made for it, and its job's first audit row already
\* enters needs_human, with an error_summary "Guardrail violation ...".
C4_ProtectedBundleNotDispatched ==
    \A b \in Bundles :
        validate_paths(bundles[b].paths) # {} =>
            /\ created[b] = 0
            /\ audit[b] # <<>> =>
                  /\ audit[b][1].new_status = "needs_human"
                  /\ jobs[b].error_summary = "Guardrail violation"

\* C15: a dispatch_one task whose create_session call succeeded returns its
\* job in status running, with the session id as run id, and has written no
\* row that enters pr_opened, green or ci_failed.
C15_FireAndForget ==
    \A b \in Bundles :
        (dpc[b] = "returned" /\ b \notin committed /\ jobs[b].devin_run_id # NoRun) =>
            /\ jobs[b].status = "running"
            /\ jobs[b].devin_run_id = b
            /\ \A i \in 1..Len(audit[b]) :
                  audit[b][i].new_status \notin {"pr_opened", "green", "ci_failed"}

\* the change id of the dispatch
change_id == "1"

\* f"change-{change_id}-{bundle_hash}"
IdempotencyKey(change, hash) == <<"change-", change, "-", hash>>

\* C17: for a bundle without a protected path, once its dispatch_one task is
\* past the create-session call, exactly one request has been made for it,
\* carrying the bundle's prompt and the idempotency key built from the
\* change id and the bundle hash.
C17_OneCreateSessionWithIdempotencyKey ==
    \A b \in Bundles :
        (validate_paths(bundles[b].paths) = {}
           /\ dpc[b] \in {"polling", "flushing", "returned"}) =>
            /\ Len(sessions[b]) = 1
            /\ sessions[b][1].prompt = prompt(b)
            /\ "idempotency_key" \in DOMAIN sessions[b][1]
            /\ sessions[b][1] = create_session(prompt(b), IdempotencyKey(change_id, bundle_hash(b)))

\* C33: a job has a run id exactly when a create-session call made for it
\* returned a session: a run id on a job is the id of the session created for
\* that job, and a job whose call returned one (it is being polled) has it.
C33_RunIdIffSessionCreated ==
    \A b \in Bundles :
        /\ jobs[b].devin_run_id # NoRun => (created[b] > 0 /\ jobs[b].devin_run_id = b)
        /\ dpc[b] = "polling" => jobs[b].devin_run_id # NoRun

\* the create-session request that a later run of main on the same contract
\* makes for bundle b: the bundles are built again from the same diff and
\* service map, and dispatch_one is given the same bundle
RerunRequest(b) == DispatchRequest(b)

\* C39: every job in green has a PR attached, whichever of the dispatcher,
\* the reconciler and the live sync wrote its status last.
C39_GreenHasPR ==
    \A b \in Bundles : jobs[b].status = "green" => jobs[b].pr_url # NoPR

C7_AuditChain ==
    \A b \in Bundles :
        jobs[b].status # "none" =>
            /\ audit[b] # <<>>
            /\ audit[b][1].old_status = "none"
            /\ \A i \in 2..Len(audit[b]) : audit[b][i].old_status = audit[b][i - 1].new_status
            /\ audit[b][Len(audit[b])].new_status = jobs[b].status

Rank(status) ==
    CASE status = "none" -> 0
      [] status = "queued" -> 1
      [] status = "running" -> 2
      [] status = "pr_opened" -> 3
      [] OTHER -> 4

\* C8: no step of the dispatcher, the reconciler or the live sync moves a
\* job to a status of lower rank (queued < running < pr_opened < terminal).
C8_StatusMonotonic ==
    [][\A b \in Bundles : Rank(jobs'[b].status) >= Rank(jobs[b].status)]_vars

(***************************************************************************)
(* SpecRecon: the sync loop (run_sync_loop) on one session: the live sync  *)
(* imports and updates the job, the reconciler passes over it.  obs and    *)
(* passes record what the last reconciler pass was answered.               *)
(***************************************************************************)
\* The answers behind a pass that wrote a row with new_status green.
Observe(b, w) ==
    IF /\ Len(audit'[b]) > Len(audit[b])
       /\ audit'[b][Len(audit'[b])].new_status = "green"
    THEN [set_green |-> TRUE,
          gh_ci |-> _fetch_github_ci_status(w, jobs'[b].pr_url).status,
          agent_ci |-> w.out_ci,
          gh_files |-> _fetch_pr_changed_files(w, jobs'[b].pr_url)]
    ELSE NoObs

\* the pass saw: agent stopped, a PR attached, no CI result from GitHub or the agent
StoppedCIUnknown(b, w) ==
    /\ w.devin = "stopped"
    /\ jobs'[b].pr_url # NoPR
    /\ ResolveCI(_fetch_github_ci_status(w, jobs'[b].pr_url), w.out_ci).status = "unknown"

ReconPass ==
    /\ ReconcilerRows(audit[1]) < MaxAudit
    /\ \E w \in Worlds :
          /\ SyncJobStatuses(1, w)
          /\ obs' = Observe(1, w)
    /\ UNCHANGED passes

ReconImport ==
    /\ \E w \in LiveWorlds : ImportSession(1, w, ForeignRun)
    /\ UNCHANGED <<obs, passes>>

ReconInit ==
    /\ TopoIdle
    /\ guardrails \in [ci_required : BOOLEAN, max_parallel : {1}]
    /\ bundles = [b \in Bundles |-> [paths |-> <<CleanPath>>, target_repo |-> "url"]]
    /\ JobInit
    /\ LibIdle

ReconNext ==
    /\ \/ ReconPass
       \/ ReconImport
    /\ UNCHANGED <<graph, tpc, waves, guardrails, bundles, orch, reached, libVars>>

SpecRecon == ReconInit /\ [][ReconNext]_vars

\* C5: with a protected path configured, a reconciler pass writes green only
\* if GitHub's changed-file list of the PR was obtained (is not empty) and
\* holds no path under a protected prefix.
C5_GreenOnlyWithCleanGitHubFiles ==
    (obs.set_green /\ Len(protected_paths) > 0) =>
        /\ obs.gh_files # <<>>
        /\ validate_paths(obs.gh_files) = {}

C9_ReconcilerIdempotent ==
    (1 \in committed /\ Selected(jobs[1])) =>
        \A w \in Worlds :
            LET once == SyncJob([job |-> jobs[1], audit |-> audit[1]], w, guardrails.ci_required)
            IN SyncJob(once, w, guardrails.ci_required) = once

\* the agent is not blocked or stopped and reports no PR, while GitHub reports
\* PR 1 closed without merge
StaleWorlds ==
    {World(d, NoPR, "absent", <<>>, "closed", "closed", "unknown", <<>>) :
        d \in {"running", "failed"}}

\* C11: whatever a reconciler pass is answered by the agent, the pr_url it
\* leaves on the job is empty or names a PR that GitHub does not report as
\* closed without merge.
C11_PRUrlAttachable ==
    (1 \in committed /\ Selected(jobs[1])) =>
        \A w \in (Worlds \ {ErrWorld}) \cup StaleWorlds :
            LET after == SyncJob([job |-> jobs[1], audit |-> audit[1]], w,
                                 guardrails.ci_required).job
            IN after.pr_url # NoPR => Meta(w, after.pr_url) # "closed"

\* the session has ended and its output carries no PR; PRs 1 and 2 of the
\* target repository are open or closed
NoPRWorlds ==
    {World(d, NoPR, "absent", <<>>, m1, m2, "unknown", <<>>) :
        d \in {"blocked", "stopped", "completed"},
        m1 \in {"open", "closed"}, m2 \in {"open", "closed"}}

\* C12: for a job without a PR url, a reconciler pass that is answered
\* blocked, stopped or completed with no PR in the output leaves the job in
\* needs_human with "Devin <status> without PR" and no pr_url, whichever
\* PRs of the repository are open.
C12_NoPRNeedsHuman ==
    (1 \in committed /\ jobs[1].devin_run_id # NoRun /\ jobs[1].pr_url = NoPR) =>
        \A w \in NoPRWorlds :
            LET after == SyncJob([job |-> jobs[1], audit |-> audit[1]], w,
                                 guardrails.ci_required).job
            IN /\ after.status = "needs_human"
               /\ after.error_summary = NoPRSummary(w.devin)
               /\ after.pr_url = NoPR

\* the agent reports the session failed
FailedWorlds == {w \in Worlds : w.devin = "failed"}

\* C13: a reconciler pass that is answered "failed" for the session of a job
\* that is not yet terminal leaves the job in ci_failed.
C13_FailedAgentToCIFailed ==
    (1 \in committed /\ jobs[1].devin_run_id # NoRun
       /\ jobs[1].status \notin TERMINAL_STATUSES) =>
        \A w \in FailedWorlds :
            SyncJob([job |-> jobs[1], audit |-> audit[1]], w,
                    guardrails.ci_required).job.status = "ci_failed"

\* the session has ended; PR 1 is closed without merge, PR 2 of the same
\* repository is open, its CI passed and its changed files are clean
\* the agent reports blocked and names an open PR in its output
BlockedWithPRWorlds == {w \in Worlds : w.devin = "blocked" /\ w.out_pr # NoPR /\ w.meta1 = "open"}

\* C35: a reconciler pass that is answered "blocked" for the session of a
\* job, with a PR that GitHub reports open, leaves the job in pr_opened,
\* whatever the check runs of that PR say.
C35_BlockedWithPRHeld ==
    (1 \in committed /\ jobs[1].devin_run_id # NoRun
       /\ jobs[1].status \notin TERMINAL_STATUSES) =>
        \A w \in BlockedWithPRWorlds :
            SyncJob([job |-> jobs[1], audit |-> audit[1]], w,
                    guardrails.ci_required).job.status = "pr_opened"

\* the agent reports stopped or blocked and names PR 1, which GitHub reports
\* open with a check run that has not completed
PendingCIWorlds ==
    {w \in Worlds : /\ w.devin \in {"stopped", "blocked"}
                    /\ w.out_pr = 1 /\ w.meta1 = "open" /\ w.checks = "pending"}

\* C40: with ci_required on, a reconciler pass that is answered stopped or
\* blocked for a job whose PR has an incomplete check run leaves the job in
\* ci_failed with error_summary "CI status: pending".
C40_PendingCIFails ==
    (guardrails.ci_required /\ 1 \in committed /\ Selected(jobs[1])) =>
        \A w \in PendingCIWorlds :
            LET after == SyncJob([job |-> jobs[1], audit |-> audit[1]], w,
                                 guardrails.ci_required).job
            IN /\ after.status = "ci_failed"
               /\ after.error_summary = "CI status: pending"
               /\ after.pr_url # NoPR

\* a job held in pr_opened that such a pass takes to ci_failed
C40_Witness ==
    /\ guardrails.ci_required /\ 1 \in committed
    /\ jobs[1].status = "pr_opened"
    /\ \E w \in PendingCIWorlds :
          SyncJob([job |-> jobs[1], audit |-> audit[1]], w,
                  guardrails.ci_required).job.status = "ci_failed"

ReplacementWorlds ==
    {World("stopped", p, oc, <<>>, "closed", "open", "passed", <<CleanPath>>) :
        p \in {NoPR, 1}, oc \in {"absent", "passed"}}
    \cup {World("blocked", p, "absent", <<>>, "closed", "open", "passed", <<CleanPath>>) :
             p \in {NoPR, 1}}

\* C24: for a job whose PR 1 is closed without merge while an open PR 2 with
\* passing CI and clean changed files exists, one reconciler pass leaves the
\* job with pr_url 2, status green, no error_summary, and exactly one more
\* audit row.
C24_ClosedPRReplaced ==
    (1 \in committed /\ jobs[1].devin_run_id # NoRun /\ jobs[1].pr_url = 1) =>
        \A w \in ReplacementWorlds :
            LET after == SyncJob([job |-> jobs[1], audit |-> audit[1]], w,
                                 guardrails.ci_required)
            IN /\ after.job.pr_url = 2
               /\ after.job.status = "green"
               /\ after.job.error_summary = ""
               /\ Len(after.audit) = Len(audit[1]) + 1

\* C31: every audit row of a job records a change of status: its new_status
\* differs from its old_status.
C31_RowIsStatusChange ==
    \A b \in Bundles : \A i \in 1..Len(audit[b]) :
        audit[b][i].new_status # audit[b][i].old_status

(***************************************************************************)
(* SpecHold: the sync loop on one session whose every reconciler pass is   *)
(* answered: agent stopped, a PR, no CI result.  passes counts the passes. *)
(***************************************************************************)
HoldWorlds ==
    {World("stopped", 1, "absent", <<>>, m, "closed", "unknown", f) :
        m \in {"open", "unknown"}, f \in FileLists}

HoldPass ==
    /\ passes < MaxStreak
    /\ \E w \in HoldWorlds :
          /\ SyncJobStatuses(1, w)
          /\ StoppedCIUnknown(1, w)
    /\ passes' = passes + 1
    /\ UNCHANGED obs

HoldNext ==
    /\ \/ HoldPass
       \/ ReconImport
    /\ UNCHANGED <<graph, tpc, waves, guardrails, bundles, orch, reached, libVars>>

SpecHold == ReconInit /\ [][HoldNext]_vars

\* C10: with ci_required on, after more than CI_UNKNOWN_MAX_ATTEMPTS passes
\* that each saw the agent stopped, a PR attached and no CI result, the job
\* is in ci_failed with the "failing closed" error text.
C10_FailClosedAfterMaxAttempts ==
    (guardrails.ci_required /\ passes > CI_UNKNOWN_MAX_ATTEMPTS) =>
        /\ jobs[1].status = "ci_failed"
        /\ jobs[1].error_summary = "CI status unknown after checks - failing closed"

(***************************************************************************)
(* SpecOrch: main (propagate/__main__.py) without --dry-run: the waves of  *)
(* topological_sort, dispatch_remediation_jobs per wave, the wave wait     *)
(* and the snapshot-advance gate.  Service n is the target of bundle n.    *)
(* main's call passes the wave's bundles, the guardrails and the change id *)
(* to the dispatcher of propagate/dispatcher.py.                           *)
(***************************************************************************)
\* service maps of the run: a service depends on its predecessor or on nothing
OrchGraphs ==
    {G \in [Bundles -> SUBSET Bundles] : \A n \in Bundles : G[n] \in {{}, {n - 1} \cap Bundles}}

\* lines 598-603: the bundles of the wave being dispatched
WaveBundles(i) == IF i \in 1..Len(waves.waves) THEN WaveSet(waves.waves, i) \cap Bundles ELSE {}

\* waves whose dispatch_remediation_jobs call has been made
Launched == UNION {WaveBundles(i) : i \in 1..orch.wave_idx}

\* the answers the dispatcher's polls are given here: still running, stopped
\* with a PR, blocked without one
OrchPollAnswers ==
    {Quiet("running", NoPR, "unknown"), Quiet("stopped", 1, "unknown"),
     Quiet("blocked", NoPR, "unknown")}

\* the answers check_jobs is given during a wave wait: still running, or
\* stopped with an open PR whose CI passed or is unknown
OrchWorlds ==
    {Quiet("running", NoPR, "unknown")}
    \cup {World("stopped", 1, "absent", <<>>, "open", "closed", c, <<CleanPath>>) :
             c \in {"passed", "unknown"}}

Reached == reached' = reached \cup {b \in Bundles : jobs'[b].status \in TERMINAL_STATUSES}

\* lines 596-597, 629: the for loop moves to the next wave or leaves to step 7
AfterWave(o) ==
    IF o.wave_idx < Len(waves.waves)
    THEN [o EXCEPT !.pc = "dispatch", !.wave_idx = @ + 1, !.poll = 0, !.ids = {}]
    ELSE [o EXCEPT !.pc = "gate", !.poll = 0, !.ids = {}]

\* a dispatch_one task of a launched wave takes a step
OrchDispatchStep ==
    /\ orch.pc \in {"dispatch", "wait", "gate"}
    /\ \E b \in Launched :
          \/ DispatchCreate(b)
          \/ DispatchAcquire(b, guardrails.max_parallel)
          \/ CreateSession(b)
          \/ DispatchPoll(b, OrchPollAnswers)
          \/ DispatchReturn(b)
    /\ Reached
    /\ UNCHANGED <<orch, obs, passes>>

\* lines 604-627: dispatch_remediation_jobs returned the wave's jobs
OrchDispatched ==
    /\ orch.pc = "dispatch"
    /\ DispatchCommit(WaveBundles(orch.wave_idx))
    /\ LET dispatched_ids == {b \in WaveBundles(orch.wave_idx) :
                                 dpc[b] = "returned" /\ jobs[b].devin_run_id # NoRun}
       IN orch' = IF ~orch.no_wait /\ dispatched_ids # {}
                  THEN [orch EXCEPT !.pc = "wait", !.poll = 0, !.ids = dispatched_ids]
                  ELSE AfterWave(orch)
    /\ Reached
    /\ UNCHANGED <<obs, passes>>

\* check_status.py lines 568-572: sync_job_statuses over every selected job
check_jobs(ws) ==
    /\ jobs' = [b \in Bundles |->
                   IF b \in DOMAIN ws
                   THEN SyncJob([job |-> jobs[b], audit |-> audit[b]], ws[b],
                                guardrails.ci_required).job
                   ELSE jobs[b]]
    /\ audit' = [b \in Bundles |->
                   IF b \in DOMAIN ws
                   THEN SyncJob([job |-> jobs[b], audit |-> audit[b]], ws[b],
                                guardrails.ci_required).audit
                   ELSE audit[b]]

\* the jobs of the waited wave that the query of lines 268-275 still finds
Pending(ids, js) ==
    {b \in ids : js[b].status \notin TERMINAL_STATUSES /\ js[b].devin_run_id # NoRun}

WaitExhausted_never(n) == FALSE

\* line 260: the for loop over range(WAVE_MAX_POLLS) has no iteration left
WaitExhausted(n) == n >= WAVE_MAX_POLLS

\* lines 254-283: one iteration of _wait_for_wave_completion; check_jobs ran
\* or raised before its commit (lines 262-265), then the pending query
OrchWaitPoll ==
    /\ orch.pc = "wait"
    /\ orch.poll < WAVE_MAX_POLLS
    /\ \/ \E ws \in [{b \in committed : Selected(jobs[b])} -> OrchWorlds] : check_jobs(ws)
       \/ UNCHANGED <<jobs, audit>>
    /\ orch' = IF Pending(orch.ids, jobs') = {} THEN AfterWave(orch)
               ELSE IF WaitExhausted(orch.poll + 1)
                    THEN [AfterWave(orch) EXCEPT !.timed_out = @ \cup {orch.wave_idx}]
                    ELSE [orch EXCEPT !.poll = @ + 1]
    /\ lastOp' = "sync_job_statuses"
    /\ Reached
    /\ UNCHANGED <<dpc, attempt, created, sessions, committed, obs, passes>>

\* lines 631-668: step 7, the snapshot-advance gate
OrchGate ==
    /\ orch.pc = "gate"
    /\ LET unresolved == {b \in committed : jobs[b].status \in {"ci_failed", "needs_human"}}
           should_store_snapshot == ~orch.dry_run /\ ~orch.no_wait /\ unresolved = {}
           fail_pipeline == ~orch.dry_run /\ ~orch.no_wait /\ unresolved # {}
       IN orch' = [orch EXCEPT !.pc = "done", !.snapshot = should_store_snapshot,
                               !.exit = IF fail_pipeline THEN 1 ELSE 0]
    /\ lastOp' = "main"
    /\ UNCHANGED <<jobs, audit, dpc, attempt, created, sessions, committed, obs, passes, reached>>

OrchInit ==
    /\ graph \in OrchGraphs
    /\ tpc = "done"
    /\ waves = topological_sort(graph)
    /\ guardrails \in [ci_required : {TRUE}, max_parallel : {1, 2}]
    /\ bundles = [b \in Bundles |-> [paths |-> <<CleanPath>>, target_repo |-> "url"]]
    /\ jobs = [b \in Bundles |-> NoJob]
    /\ audit = [b \in Bundles |-> <<>>]
    /\ dpc = [b \in Bundles |-> "idle"]
    /\ attempt = [b \in Bundles |-> 0]
    /\ created = [b \in Bundles |-> 0]
    /\ sessions = [b \in Bundles |-> <<>>]
    /\ committed = {}
    /\ lastOp = "init"
    /\ obs = NoObs
    /\ passes = 0
    /\ orch \in {[OrchIdle EXCEPT !.pc = "dispatch", !.wave_idx = 1, !.no_wait = f] :
                    f \in BOOLEAN}
    /\ reached = {}
    /\ LibIdle

OrchNext ==
    /\ \/ OrchDispatchStep
       \/ OrchDispatched
       \/ OrchWaitPoll
       \/ OrchGate
    /\ UNCHANGED <<graph, tpc, waves, guardrails, bundles, libVars>>

SpecOrch == OrchInit /\ [][OrchNext]_vars

\* the event loop resumes the waiting coroutine after each sleep and each
\* check_jobs call
SpecOrchLive == OrchInit /\ [][OrchNext]_vars /\ WF_orch(OrchWaitPoll)

C34_WaitStep ==
    (orch.pc = "wait" /\ orch' # orch) =>
        /\ orch.poll < WAVE_MAX_POLLS
        /\ Pending(orch.ids, jobs') = {} =>
               /\ orch' = AfterWave(orch)
               /\ orch'.timed_out = orch.timed_out
        /\ (Pending(orch.ids, jobs') # {} /\ orch.poll + 1 < WAVE_MAX_POLLS) =>
               orch' = [orch EXCEPT !.poll = @ + 1]
        /\ (Pending(orch.ids, jobs') # {} /\ orch.poll + 1 = WAVE_MAX_POLLS) =>
               /\ orch' = [AfterWave(orch) EXCEPT !.timed_out = @ \cup {orch.wave_idx}]
               /\ orch'.pc \in {"dispatch", "gate"}

C34_WaitTerminates ==
    /\ [][C34_WaitStep]_vars
    /\ (orch.pc = "wait") ~> (orch.pc # "wait")

\* a wait returned false after its last poll, and the run is at its gate
C34_Witness ==
    /\ orch.pc = "gate"
    /\ orch.timed_out # {}
    /\ \E b \in committed : jobs[b].status \notin TERMINAL_STATUSES

\* C32: a dispatch_one task that has returned with a created session has its
\* job row, run id included, committed, whatever the other tasks of the wave
\* are doing.
C32_UnitCommitsOwnJob ==
    \A b \in Bundles :
        (dpc[b] = "returned" /\ jobs[b].devin_run_id # NoRun) => b \in committed

\* C14: at every moment of a dispatch, at most max_parallel dispatch_one
\* tasks are inside the semaphore block, where create_session and every
\* later agent call of the task is made.
C14_AtMostMaxParallelInFlight == Cardinality(Holding) <= guardrails.max_parallel

\* every permit is taken and another task of the wave waits for one
C14_Witness ==
    /\ Cardinality(Holding) = guardrails.max_parallel
    /\ \E b \in Bundles : dpc[b] = "queued"

\* create_session raised for bundle b
CreateFailed(b) ==
    created[b] > 0 /\ jobs[b].devin_run_id = NoRun /\ dpc[b] \in {"flushing", "returned"}

\* C16: a job whose create_session call raised is in needs_human with the
\* error string as error_summary and a last audit row for that transition;
\* once the dispatch of its wave has returned, every bundle of the wave has
\* had its create_session call and has its job row among those returned.
C16_CreateSessionErrorIsolated ==
    \A b \in Bundles :
        CreateFailed(b) =>
            /\ jobs[b].status = "needs_human"
            /\ jobs[b].error_summary = "create_session error"
            /\ audit[b] # <<>>
            /\ audit[b][Len(audit[b])] = Row("running", "needs_human", "create_session error")
            /\ \A i \in 1..Len(waves.waves) :
                  (b \in WaveBundles(i) /\ b \in committed) =>
                      \A a \in WaveBundles(i) :
                          a \in committed /\ created[a] = 1 /\ jobs[a].status # "none"

\* the dispatch of a wave has returned; create_session raised for one of its
\* bundles and gave a session to another
C16_Witness ==
    \E i \in 1..Len(waves.waves) : \E b, a \in WaveBundles(i) :
        /\ {a, b} \subseteq committed
        /\ CreateFailed(b)
        /\ jobs[a].devin_run_id # NoRun

(***************************************************************************)
(* SpecMain: main (propagate/__main__.py) from the snapshot lookup to the  *)
(* exit, with --dry-run, --no-wait and --ci.  orch.snapshot: a             *)
(* ContractSnapshot row for the new contract hash was added; orch.baseline:*)
(* the empty CI baseline row was added; orch.step: the last of the steps   *)
(* 1 to 4 that the run began; orch.raised: the exception that ended it.    *)
(***************************************************************************)
\* the flags of the run and what the snapshot lookup finds
Runs ==
    {[OrchIdle EXCEPT !.pc = "load", !.dry_run = d, !.no_wait = n, !.same_hash = h] :
        d \in BOOLEAN, n \in BOOLEAN, h \in BOOLEAN}
    \cup {[OrchIdle EXCEPT !.pc = "load", !.dry_run = d, !.no_wait = n, !.ci = c,
                           !.old_snapshot = FALSE] :
             d \in BOOLEAN, n \in BOOLEAN, c \in BOOLEAN}

\* lines 358-401: the most recent snapshot
MainLoad ==
    /\ orch.pc = "load"
    /\ orch' = IF ~orch.old_snapshot
               THEN IF orch.ci
                    THEN [orch EXCEPT !.pc = "diff", !.baseline = TRUE]
                    ELSE [orch EXCEPT !.pc = "done", !.snapshot = TRUE]
               ELSE IF orch.same_hash
                    THEN [orch EXCEPT !.pc = "done"]
                    ELSE [orch EXCEPT !.pc = "diff"]
    /\ lastOp' = "main"
    /\ UNCHANGED <<jobs, audit, dpc, attempt, created, sessions, committed, obs, passes, reached>>

\* an exception leaves main: the session is closed without commit, the
\* rows flushed since the last commit are rolled back, the process exits 1
Uncaught(o, exception) ==
    [o EXCEPT !.pc = "done", !.raised = exception, !.exit = 1, !.baseline = FALSE]

\* lines 403-437: step 1, diff_contracts finds diffs or none; step 2 builds
\* the ContractChange with base_ref = old_snapshot.version_hash, and
\* old_snapshot is None when the empty CI baseline is used
MainDiff ==
    /\ orch.pc = "diff"
    /\ \E diffs \in BOOLEAN :
          orch' = IF ~diffs
                  THEN [orch EXCEPT !.pc = "done", !.snapshot = TRUE, !.step = 1]
                  ELSE IF ~orch.old_snapshot
                       THEN Uncaught([orch EXCEPT !.step = 2], "AttributeError")
                       ELSE [orch EXCEPT !.pc = "impact", !.step = 2]
    /\ lastOp' = "main"
    /\ UNCHANGED <<jobs, audit, dpc, attempt, created, sessions, committed, obs, passes, reached>>

\* lines 439-484: step 3, compute_impact_sets finds impacted callers or none;
\* the change and its impact sets are committed
MainImpact ==
    /\ orch.pc = "impact"
    /\ \E impacts \in BOOLEAN :
          orch' = IF ~impacts
                  THEN [orch EXCEPT !.pc = "done", !.snapshot = TRUE, !.step = 3]
                  ELSE [orch EXCEPT !.pc = "graph", !.step = 3]
    /\ lastOp' = "main"
    /\ UNCHANGED <<jobs, audit, dpc, attempt, created, sessions, committed, obs, passes, reached>>

\* lines 486-510: step 4 sorts the dependency graph into waves, step 5
\* builds the bundles; the sort's ValueError is not caught
MainGraph ==
    /\ orch.pc = "graph"
    /\ orch' = IF waves.raised
               THEN Uncaught([orch EXCEPT !.step = 4], "ValueError")
               ELSE IF orch.dry_run
                    THEN [orch EXCEPT !.pc = "simulate", !.step = 4]
                    ELSE [orch EXCEPT !.pc = "dispatch", !.wave_idx = 1, !.step = 4]
    /\ lastOp' = "main"
    /\ UNCHANGED <<jobs, audit, dpc, attempt, created, sessions, committed, obs, passes, reached>>

\* lines 551-561: the terminal state rolled for a simulated job
SimOutcomes == {"green", "ci_failed", "needs_human"}

SimDetail(terminal) ==
    CASE terminal = "green" -> ""
      [] terminal = "ci_failed" -> "CI failed: test assertions broke"
      [] OTHER -> "Devin session blocked, requires human review"

\* lines 510-595: the dry run adds one simulated job per bundle
MainSimulate ==
    /\ orch.pc = "simulate"
    /\ \E roll \in [Bundles -> SimOutcomes] :
          jobs' = [b \in Bundles |->
                     IF validate_paths(bundles[b].paths) # {}
                     THEN [NoJob EXCEPT !.status = "needs_human",
                                        !.error_summary = "Guardrail violation",
                                        !.target_repo = bundles[b].target_repo]
                     ELSE [NoJob EXCEPT !.status = roll[b],
                                        !.error_summary = SimDetail(roll[b]),
                                        !.target_repo = bundles[b].target_repo]]
    /\ orch' = [orch EXCEPT !.pc = "gate"]
    /\ lastOp' = "main"
    /\ UNCHANGED <<audit, dpc, attempt, created, sessions, committed, obs, passes, reached>>

\* service maps in which two services depend on each other
CyclicGraphs ==
    {[n \in Bundles |-> IF n \in pair THEN pair \ {n} ELSE {}] :
        pair \in {{a, a + 1} : a \in 1..(NumBundles - 1)}}

MainInit ==
    /\ graph \in OrchGraphs \cup CyclicGraphs
    /\ tpc = "done"
    /\ waves = topological_sort(graph)
    /\ guardrails = [ci_required |-> TRUE, max_parallel |-> 2]
    /\ bundles \in [Bundles -> BundleConfigs]
    /\ \A b \in Bundles : b # 1 => bundles[b] = [paths |-> <<CleanPath>>, target_repo |-> "url"]
    /\ jobs = [b \in Bundles |-> NoJob]
    /\ audit = [b \in Bundles |-> <<>>]
    /\ dpc = [b \in Bundles |-> "idle"]
    /\ attempt = [b \in Bundles |-> 0]
    /\ created = [b \in Bundles |-> 0]
    /\ sessions = [b \in Bundles |-> <<>>]
    /\ committed = {}
    /\ lastOp = "init"
    /\ obs = NoObs
    /\ passes = 0
    /\ orch \in Runs
    /\ reached = {}
    /\ LibIdle

MainNext ==
    /\ \/ MainLoad
       \/ MainDiff
       \/ MainImpact
       \/ MainGraph
       \/ MainSimulate
       \/ OrchDispatchStep
       \/ OrchDispatched
       \/ OrchWaitPoll
       \/ OrchGate
    /\ UNCHANGED <<graph, tpc, waves, guardrails, bundles, libVars>>

SpecMain == MainInit /\ [][MainNext]_vars

\* C18: a run that found a prior snapshot and was started with --dry-run or
\* --no-wait has added no ContractSnapshot row.
C18_NoSnapshotInDryRunOrNoWait ==
    (orch.old_snapshot /\ (orch.dry_run \/ orch.no_wait)) =>
        ~orch.snapshot /\ ~orch.baseline

C38_CIBaselineRunContinues ==
    (orch.ci /\ ~orch.old_snapshot /\ orch.step >= 2) =>
        (orch.pc = "impact" \/ orch.step >= 3)

(***************************************************************************)
(* SpecStore: the contract_snapshots table over a sequence of orchestrator *)
(* runs (propagate/__main__.py, src/entities/contract_snapshot.py).  Each  *)
(* run loads a contract with hash run.hash; what happens between the       *)
(* snapshot lookup and step 7 is reduced to whether the run stores the     *)
(* snapshot or not.                                                        *)
(***************************************************************************)
\* version hashes of the contract file; "empty" is the hash of the empty CI baseline
Hashes == {"A", "B", "C"}

Last(seq) == seq[Len(seq)]

\* db.add(ContractSnapshot(version_hash=h)) followed by flush/commit:
\* version_hash is declared unique, so a second row with the same hash
\* raises IntegrityError and the row is not stored
Put(rows, h) ==
    IF \E i \in 1..Len(rows) : rows[i] = h
    THEN [rows |-> rows, error |-> TRUE]
    ELSE [rows |-> Append(rows, h), error |-> FALSE]

\* cli: a run starts on the contract file as it is now
StoreStart ==
    /\ run.pc = "idle"
    /\ \E h \in Hashes, c \in BOOLEAN :
          run' = [pc |-> "load", hash |-> h, ci |-> c, promoted |-> FALSE, error |-> FALSE]
    /\ UNCHANGED store

\* lines 358-401: lookup of the most recent snapshot
StoreLoad ==
    /\ run.pc = "load"
    /\ IF store = <<>>
       THEN IF run.ci
            THEN /\ store' = Put(store, "empty").rows
                 /\ run' = [run EXCEPT !.pc = "pipeline", !.error = Put(store, "empty").error]
            ELSE /\ store' = Put(store, run.hash).rows
                 /\ run' = [run EXCEPT !.pc = "idle", !.promoted = TRUE,
                                       !.error = Put(store, run.hash).error]
       ELSE IF Last(store) = run.hash
            THEN /\ run' = [run EXCEPT !.pc = "idle"]
                 /\ UNCHANGED store
            ELSE /\ run' = [run EXCEPT !.pc = "pipeline"]
                 /\ UNCHANGED store

\* lines 410-419, 473-482, 662-668: the run stores the snapshot of the new hash
StoreAdvance ==
    /\ run.pc = "pipeline"
    /\ store' = Put(store, run.hash).rows
    /\ run' = [run EXCEPT !.pc = "idle", !.promoted = TRUE,
                          !.error = Put(store, run.hash).error]

\* lines 656-660: the run ends without storing a snapshot
StoreHold ==
    /\ run.pc = "pipeline"
    /\ run' = [run EXCEPT !.pc = "idle"]
    /\ UNCHANGED store

StoreInit ==
    /\ TopoIdle
    /\ guardrails = [ci_required |-> TRUE, max_parallel |-> 1]
    /\ bundles = [b \in Bundles |-> [paths |-> <<CleanPath>>, target_repo |-> "url"]]
    /\ JobInit
    /\ LibIdle

StoreNext ==
    /\ \/ StoreStart
       \/ StoreLoad
       \/ StoreAdvance
       \/ StoreHold
    /\ UNCHANGED <<topoVars, jobVars>>
    /\ FrameExcept({"store"})

SpecStore == StoreInit /\ [][StoreNext]_vars

\* C21: the store holds at most one snapshot per version_hash, and a run
\* that took its advance step ended without error and left the snapshot of
\* its own contract hash as the most recent one.
C21_BaselineIdempotent ==
    /\ \A i, j \in 1..Len(store) : store[i] = store[j] => i = j
    /\ (run.pc = "idle" /\ run.promoted) =>
          /\ ~run.error
          /\ store # <<>>
          /\ Last(store) = run.hash

(***************************************************************************)
(* SpecHttp: one call of DevinClient._request_with_retry                   *)
(* (propagate/devin_client.py); the server's answer to each attempt is     *)
(* any status code or a connection/timeout error.                          *)
(***************************************************************************)
_MAX_RETRIES == 3
_BASE_DELAY == 1

\* A client that also takes 401 for a transient answer.
_RETRYABLE_STATUS_CODES_with_auth == {"502", "503", "504", "429", "401"}

_RETRYABLE_STATUS_CODES == {"502", "503", "504", "429"}

\* httpx.ConnectError, httpx.TimeoutException
TransportErrors == {"ConnectError", "TimeoutException"}

\* what one attempt can be answered
Responses == {"200", "404", "401", "403", "429", "502", "503", "504"} \cup TransportErrors

\* lines 49-88: one iteration of `for attempt in range(_MAX_RETRIES + 1)`
HttpAttempt ==
    /\ http.pc = "request"
    /\ http.attempt <= _MAX_RETRIES
    /\ \E r \in Responses :
          LET h == [http EXCEPT !.seen = Append(@, r)]
              delay == _BASE_DELAY * (2 ^ http.attempt)
              retry == [h EXCEPT !.attempt = @ + 1, !.waits = Append(@, delay)]
          IN http' =
               IF r \in TransportErrors
               THEN IF http.attempt < _MAX_RETRIES THEN retry
                    ELSE [h EXCEPT !.pc = "raised", !.result = r]
               ELSE IF r \in _RETRYABLE_STATUS_CODES /\ http.attempt < _MAX_RETRIES THEN retry
               ELSE IF r \in {"401", "403"}
                    THEN [h EXCEPT !.pc = "raised", !.result = "Authentication failed"]
               ELSE IF r = "200" THEN [h EXCEPT !.pc = "returned", !.result = r]
               ELSE [h EXCEPT !.pc = "raised", !.result = "HTTPStatusError"]

HttpInit ==
    /\ TopoIdle
    /\ guardrails = [ci_required |-> TRUE, max_parallel |-> 1]
    /\ bundles = [b \in Bundles |-> [paths |-> <<CleanPath>>, target_repo |-> "url"]]
    /\ JobInit
    /\ LibIdle

HttpNext ==
    /\ HttpAttempt
    /\ UNCHANGED <<topoVars, jobVars>>
    /\ FrameExcept({"http"})

SpecHttp == HttpInit /\ [][HttpNext]_vars

\* C22: a call makes at most _MAX_RETRIES + 1 attempts; every attempt but
\* the last was answered 429/502/503/504 or failed with a connection or
\* timeout error and was followed by a wait of 1, 2, 4 seconds in turn; a
\* 401 or 403 answer ends the call at once with an authentication error.
C22_BoundedRetry ==
    /\ Len(http.seen) <= _MAX_RETRIES + 1
    /\ http.attempt <= _MAX_RETRIES
    /\ http.waits = SubSeq(<<1, 2, 4>>, 1, Len(http.waits))
    /\ Len(http.waits) = IF http.pc = "request" THEN Len(http.seen) ELSE Len(http.seen) - 1
    /\ \A i \in 1..Len(http.waits) :
          http.seen[i] \in {"429", "502", "503", "504"} \cup TransportErrors
    /\ \A i \in 1..Len(http.seen) :
          http.seen[i] \in {"401", "403"} =>
              /\ i = Len(http.seen)
              /\ http.pc = "raised"
              /\ http.result = "Authentication failed"

\* the call gave up after the fourth attempt, having waited 1, 2 and 4 seconds
C22_Witness ==
    /\ http.pc = "raised"
    /\ Len(http.seen) = 4
    /\ http.waits = <<1, 2, 4>>

(***************************************************************************)
(* SpecSync: the tasks that run the live sync: the background loop         *)
(* (run_sync_loop) and manual requests (POST /live-jobs/sync).  Each runs  *)
(* sync_devin_sessions, then sync_job_statuses; every await is a point     *)
(* where another task may run.                                             *)
(***************************************************************************)
MaxItems == 2                   \* sessions listed / jobs selected in one pass

Syncers == {"loop", "manual1", "manual2"}

\* _SYNC_MUTEX is held by the task inside `async with _SYNC_MUTEX`
MutexHeld == \E t \in Syncers : sync.at[t] = "sessions"

\* run_sync_loop line 601 / sync_live_jobs lines 194-199: a pass starts; a
\* manual request within the cooldown is answered 429
SyncBegin(t) ==
    /\ sync.at[t] = "idle"
    /\ t # "loop" => ~sync.cooldown
    /\ sync' = [sync EXCEPT !.at[t] = "list",
                            !.cooldown = IF t = "loop" THEN @ ELSE TRUE]

\* contracts.py line 196: _SYNC_COOLDOWN seconds have passed
CooldownElapse ==
    /\ sync.cooldown
    /\ sync' = [sync EXCEPT !.cooldown = FALSE]

\* sync_devin.py line 390: list_sessions returned
SyncList(t) ==
    /\ sync.at[t] = "list"
    /\ \E n \in 0..MaxItems : sync' = [sync EXCEPT !.at[t] = "acquire", !.left[t] = n]

\* line 391: async with _SYNC_MUTEX
SyncAcquire(t) ==
    /\ sync.at[t] = "acquire"
    /\ ~MutexHeld
    /\ sync' = [sync EXCEPT !.at[t] = "sessions"]

\* lines 392-547: one session of the loop: get_session, GitHub metadata, the
\* lookup and the insert or update of the job row
SyncSession(t) ==
    /\ sync.at[t] = "sessions"
    /\ sync.left[t] > 0
    /\ sync' = [sync EXCEPT !.left[t] = @ - 1]

\* lines 549-573 and check_status.py 288-299: commit, the mutex is released,
\* webhooks; sync_devin_sessions returns and sync_job_statuses selects its jobs
SyncCommit(t) ==
    /\ sync.at[t] = "sessions"
    /\ sync.left[t] = 0
    /\ \E n \in 0..MaxItems : sync' = [sync EXCEPT !.at[t] = "statuses", !.left[t] = n]

\* check_status.py lines 307-548: one job of the pass: get_session, GitHub
\* calls, writes to the job row and the audit log
SyncStatusJob(t) ==
    /\ sync.at[t] = "statuses"
    /\ sync.left[t] > 0
    /\ sync' = [sync EXCEPT !.left[t] = @ - 1]

\* check_status.py line 549: db.commit()
SyncStatusCommit(t) ==
    /\ sync.at[t] = "statuses"
    /\ sync.left[t] = 0
    /\ sync' = [sync EXCEPT !.at[t] = "idle"]

SyncInit ==
    /\ TopoIdle
    /\ guardrails = [ci_required |-> TRUE, max_parallel |-> 1]
    /\ bundles = [b \in Bundles |-> [paths |-> <<CleanPath>>, target_repo |-> "url"]]
    /\ JobInit
    /\ LibIdle

SyncNext ==
    /\ \/ \E t \in Syncers :
             \/ SyncBegin(t)
             \/ SyncList(t)
             \/ SyncAcquire(t)
             \/ SyncSession(t)
             \/ SyncCommit(t)
             \/ SyncStatusJob(t)
             \/ SyncStatusCommit(t)
       \/ CooldownElapse
    /\ UNCHANGED <<topoVars, jobVars>>
    /\ FrameExcept({"sync"})

SpecSync == SyncInit /\ [][SyncNext]_vars

\* a task is between the first read of job rows and the commit of a pass
InWriteSection(t) == sync.at[t] \in {"sessions", "statuses"}

\* C23: at most one live-sync task at a time is inside sync_devin_sessions'
\* loop or inside the sync_job_statuses pass that follows it.
C23_OneSyncWriter == Cardinality({t \in Syncers : InWriteSection(t)}) <= 1

(***************************************************************************)
(* SpecImpact: compute_impact_sets (propagate/impact.py) applied to a      *)
(* usage table filled by the telemetry middleware.                         *)
(***************************************************************************)
MaxUsage == 2                   \* rows of usage_requests

\* a route string is its characters, grouped: "POST /a" is <<"POST", " ", "/a">>
RouteStrings == {<<"GET", " ", "/a">>, <<"POST", " ", "/a">>}

\* classified.changed_routes: sorted, without duplicates
ChangedRouteLists ==
    {<<>>, << <<"GET", " ", "/a">> >>, << <<"POST", " ", "/a">> >>,
     << <<"GET", " ", "/a">>, <<"POST", " ", "/a">> >>}

\* names of the service map that declare depends_on api-core
DeclaredNames == {"billing-service", "dashboard-service"}

\* X-Caller-Service of a request; "unknown" when the header is missing
Callers == {"billing-service", "notification-service", "unknown"}

\* age of a row in days when compute_impact_sets runs
Ages == {1, 3, 8}

UsageRows ==
    [caller_service : Callers, method : {"GET", "POST"}, route_template : {"/a"}, age : Ages]

\* str.upper on a method
Upper(m) ==
    CASE m = "get" -> "GET"
      [] m = "post" -> "POST"
      [] OTHER -> m

\* route_str.split(" ", 1): the parts before and after the first space
Split1(route_str) ==
    LET spaces == {i \in 1..Len(route_str) : route_str[i] = " "}
    IN IF spaces = {} THEN <<route_str>>
       ELSE LET i == CHOOSE k \in spaces : \A j \in spaces : k <= j
            IN <<SubSeq(route_str, 1, i - 1), SubSeq(route_str, i + 1, Len(route_str))>>

\* a one-piece string is its piece, an empty one ""
Joined(pieces) == IF pieces = <<>> THEN "" ELSE pieces[1]

\* lines 44-48: the (method, route_template) pairs of the well-formed routes
RECURSIVE route_filters(_)
route_filters(changed_routes) ==
    IF changed_routes = <<>> THEN <<>>
    ELSE LET parts == Split1(Head(changed_routes))
             rest == route_filters(Tail(changed_routes))
         IN IF Len(parts) = 2
            THEN << <<Upper(Joined(parts[1])), Joined(parts[2])>> >> \o rest
            ELSE rest

\* a query that also returns the rows without a caller header
CallerFilter_keep_unknown(row) == TRUE

\* line 71: UsageRequest.caller_service != "unknown"
CallerFilter(row) == row.caller_service # "unknown"

\* lines 59-73: the rows selected for one (method, route_template)
Selected7d(usage, method, route_template) ==
    {row \in usage : /\ row.age <= 7
                     /\ row.method = method
                     /\ row.route_template = route_template
                     /\ CallerFilter(row)}

\* lines 23-105; the returned list holds each record once, it is given as a set
compute_impact_sets(usage, changed_routes, declared_dependents) ==
    LET filters == route_filters(changed_routes)
        keys ==
            {<<row.caller_service, row.method, row.route_template>> :
                row \in UNION {Selected7d(usage, filters[i][1], filters[i][2]) :
                                  i \in 1..Len(filters)}}
        seen_services == {k[1] : k \in keys}
    IN IF changed_routes = <<>> \/ filters = <<>> THEN {}
       ELSE {[caller_service |-> k[1], method |-> k[2], route_template |-> k[3],
              calls_last_7d |->
                  Cardinality({row \in Selected7d(usage, k[2], k[3]) :
                                  row.caller_service = k[1]}),
              declared_only |-> FALSE] : k \in keys}
            \cup {[caller_service |-> svc, method |-> filters[1][1],
                   route_template |-> filters[1][2], calls_last_7d |-> 0,
                   declared_only |-> TRUE] : svc \in declared_dependents \ seen_services}

\* UsageTelemetryMiddleware.dispatch: a request is recorded
RecordUsage ==
    /\ impact.pc = "ready"
    /\ Cardinality(impact.usage) < MaxUsage
    /\ \E row \in UsageRows \ impact.usage :
          impact' = [impact EXCEPT !.usage = @ \cup {row}]

\* __main__.py lines 447-454
ComputeImpactSets ==
    /\ impact.pc = "ready"
    /\ impact' = [impact EXCEPT
                     !.impacts = compute_impact_sets(impact.usage, impact.changed_routes,
                                                     impact.declared_dependents),
                     !.pc = "done"]

ImpactInit ==
    /\ TopoIdle
    /\ guardrails = [ci_required |-> TRUE, max_parallel |-> 1]
    /\ bundles = [b \in Bundles |-> [paths |-> <<CleanPath>>, target_repo |-> "url"]]
    /\ JobInit
    /\ IdleExcept({"impact"})
    /\ impact \in [usage : {{}}, changed_routes : ChangedRouteLists,
                   declared_dependents : SUBSET DeclaredNames, impacts : {{}},
                   pc : {"ready"}]

ImpactNext ==
    /\ \/ RecordUsage
       \/ ComputeImpactSets
    /\ UNCHANGED <<topoVars, jobVars>>
    /\ FrameExcept({"impact"})

SpecImpact == ImpactInit /\ [][ImpactNext]_vars

\* the (method, route_template) of a usage row is one of the changed routes
OnChangedRoute(row) ==
    \E i \in 1..Len(impact.changed_routes) :
        impact.changed_routes[i] = <<row.method, " ", row.route_template>>

\* C26: for a non-empty list of changed routes the records returned by
\* compute_impact_sets name every declared dependent, name every caller with
\* a usage row on a changed route in the last 7 days, and never name "unknown".
C26_ImpactUnion ==
    (impact.pc = "done" /\ impact.changed_routes # <<>>) =>
        /\ \A svc \in impact.declared_dependents :
              \E rec \in impact.impacts : rec.caller_service = svc
        /\ \A row \in impact.usage :
              (row.age <= 7 /\ row.caller_service # "unknown" /\ OnChangedRoute(row)) =>
                  \E rec \in impact.impacts : rec.caller_service = row.caller_service
        /\ \A rec \in impact.impacts : rec.caller_service # "unknown"

\* a declared dependent without telemetry, a telemetry-only caller and a
\* request without caller header, all on a changed route
C26_Witness ==
    /\ impact.pc = "done"
    /\ impact.changed_routes # <<>>
    /\ \E rec \in impact.impacts : rec.declared_only
    /\ \E rec \in impact.impacts :
          rec.caller_service = "notification-service" /\ rec.calls_last_7d > 0
    /\ \E row \in impact.usage :
          row.caller_service = "unknown" /\ row.age <= 7 /\ OnChangedRoute(row)

(***************************************************************************)
(* SpecClassify: classify_changes (propagate/classifier.py) applied to     *)
(* lists of diffs of the kinds diff_contracts emits.                       *)
(***************************************************************************)
MaxDiffs == 2                   \* length of a diff list

\* the diff_type values written by diff_contracts and _diff_nested
DiffKinds ==
    {"operation_added", "operation_removed",
     "parameter_added_required", "parameter_removed", "parameter_type_changed",
     "content_type_changed", "security_changed",
     "field_added_required", "field_optional_to_required", "field_removed",
     "field_type_changed", "enum_values_removed", "response_structure_changed",
     "nested_field_removed", "nested_field_added", "nested_field_type_changed",
     "array_item_type_changed"}

BREAKING_DIFF_TYPES ==
    {"field_added_required", "field_optional_to_required", "field_removed",
     "field_type_changed", "field_moved", "response_structure_changed",
     "operation_removed", "enum_values_removed", "nested_field_removed",
     "nested_field_type_changed", "array_item_type_changed"}

\* ContractDiff, without the old and new values
Diff(path, method, field, diff_type) ==
    [path |-> path, method |-> method, field |-> field, diff_type |-> diff_type]

RECURSIVE SeqsUpTo(_, _)
SeqsUpTo(S, n) ==
    IF n = 0 THEN {<<>>}
    ELSE LET shorter == SeqsUpTo(S, n - 1)
         IN shorter \cup {Append(q, x) : q \in shorter, x \in S}

DiffLists == SeqsUpTo({Diff("/a", "post", "f", k) : k \in DiffKinds}, MaxDiffs)

HasKind(diffs, kinds) == \E i \in 1..Len(diffs) : diffs[i].diff_type \in kinds

\* a ladder that looks at the first diff of the list only
Severity_first_diff(diffs) ==
    LET first == <<Head(diffs)>>
    IN IF HasKind(first, {"field_added_required", "field_optional_to_required",
                          "response_structure_changed"})
       THEN "critical"
       ELSE IF HasKind(first, {"field_removed", "nested_field_removed", "enum_values_removed"})
            THEN "high"
       ELSE IF HasKind(first, {"field_type_changed", "nested_field_type_changed",
                               "array_item_type_changed"})
            THEN "medium"
       ELSE "low"

\* lines 51-72
Severity(diffs) ==
    LET has_required_field_add ==
            HasKind(diffs, {"field_added_required", "field_optional_to_required"})
        has_structure_change == HasKind(diffs, {"response_structure_changed"})
        has_field_removed == HasKind(diffs, {"field_removed", "nested_field_removed"})
        has_type_change ==
            HasKind(diffs, {"field_type_changed", "nested_field_type_changed",
                            "array_item_type_changed"})
        has_enum_narrowing == HasKind(diffs, {"enum_values_removed"})
    IN IF has_required_field_add \/ has_structure_change THEN "critical"
       ELSE IF has_field_removed \/ has_enum_narrowing THEN "high"
       ELSE IF has_type_change THEN "medium"
       ELSE "low"

\* lines 74-93: the phrases of the summary, without the field names
Summary(diffs) ==
    LET part(kinds, phrase) == IF HasKind(diffs, kinds) THEN <<phrase>> ELSE <<>>
        parts ==
            part({"field_added_required", "field_optional_to_required"}, "New required field(s)")
            \o part({"field_removed", "nested_field_removed"}, "Removed field(s)")
            \o part({"response_structure_changed"}, "Response structure changed")
            \o part({"field_type_changed", "nested_field_type_changed",
                     "array_item_type_changed"}, "Type changed")
            \o part({"enum_values_removed"}, "Enum values removed")
    IN IF parts # <<>> THEN parts ELSE <<"Non-breaking changes detected">>

\* classify_changes; changed_routes, a sorted list without duplicates, is
\* given as the set of its (METHOD, path) pairs
classify_changes(diffs) ==
    IF diffs = <<>>
    THEN [is_breaking |-> FALSE, severity |-> "low", summary |-> <<"No changes detected">>,
          changed_routes |-> {}]
    ELSE [is_breaking |-> HasKind(diffs, BREAKING_DIFF_TYPES),
          severity |-> Severity(diffs),
          summary |-> Summary(diffs),
          changed_routes |-> {<<Upper(diffs[i].method), diffs[i].path>> : i \in 1..Len(diffs)}]

\* __main__.py: classified = classify_changes(diffs)
ClassifyChanges ==
    /\ cls.pc = "ready"
    /\ cls' = [cls EXCEPT !.out = classify_changes(cls.diffs), !.pc = "done"]

ClassifyInit ==
    /\ TopoIdle
    /\ guardrails = [ci_required |-> TRUE, max_parallel |-> 1]
    /\ bundles = [b \in Bundles |-> [paths |-> <<CleanPath>>, target_repo |-> "url"]]
    /\ JobInit
    /\ IdleExcept({"cls"})
    /\ cls \in [diffs : DiffLists,
                out : {[is_breaking |-> FALSE, severity |-> "none", summary |-> <<>>,
                        changed_routes |-> {}]},
                pc : {"ready"}]

ClassifyNext ==
    /\ ClassifyChanges
    /\ UNCHANGED <<topoVars, jobVars>>
    /\ FrameExcept({"cls"})

SpecClassify == ClassifyInit /\ [][ClassifyNext]_vars

\* C27: is_breaking is true exactly when the diff list holds a diff of a
\* breaking kind: every kind of the differ but operation_added,
\* nested_field_added and the parameter changes that do not narrow, so that
\* operation_removed, content_type_changed, security_changed and
\* parameter_added_required are breaking kinds.
C27_BreakingIffBreakingKind ==
    LET breaking == DiffKinds \ {"operation_added", "nested_field_added",
                                 "parameter_removed", "parameter_type_changed"}
    IN cls.pc = "done" => (cls.out.is_breaking <=> HasKind(cls.diffs, breaking))

\* the rung of one diff kind
Rung(kind) ==
    CASE kind \in {"field_added_required", "field_optional_to_required",
                   "response_structure_changed"} -> 3
      [] kind \in {"field_removed", "nested_field_removed", "enum_values_removed"} -> 2
      [] kind \in {"field_type_changed", "nested_field_type_changed",
                   "array_item_type_changed"} -> 1
      [] OTHER -> 0

RungName(n) == <<"low", "medium", "high", "critical">>[n + 1]

\* C28: the severity of a non-empty diff list is the highest rung of its
\* diffs, in whatever order they come.
C28_SeverityIsHighestRung ==
    (cls.pc = "done" /\ cls.diffs # <<>>) =>
        cls.out.severity =
            RungName(SetMax({Rung(cls.diffs[i].diff_type) : i \in 1..Len(cls.diffs)}))

\* a medium diff listed before a critical one
C28_Witness ==
    /\ cls.pc = "done"
    /\ Len(cls.diffs) >= 2
    /\ Rung(cls.diffs[1].diff_type) = 1
    /\ Rung(cls.diffs[2].diff_type) = 3
    /\ cls.out.severity = "critical"

(***************************************************************************)
(* SpecDiff: diff_contracts (propagate/differ.py) applied to pairs of      *)
(* contract documents.  A document has one path, "/a", with the operations *)
(* "get" and "post", and its components/schemas.  A schema is a record     *)
(* [ref, type, properties, required, items, enum]; an absent key is        *)
(* "", "none", an empty function, {}, <<>> or {}.                          *)
(***************************************************************************)
RecursionLimit == 4             \* frames of _diff_nested the interpreter allows

NoProps == [n \in {} |-> 0]

\* the schema {}
Empty ==
    [ref |-> "", type |-> "none", properties |-> NoProps, required |-> {},
     items |-> <<>>, enum |-> {}]

Ref(name) == [Empty EXCEPT !.ref = name]
Scalar(type, enum) == [Empty EXCEPT !.type = type, !.enum = enum]
Obj(properties, required) ==
    [Empty EXCEPT !.type = "object", !.properties = properties, !.required = required]
Arr(item) == [Empty EXCEPT !.type = "array", !.items = <<item>>]

\* schema.get("items", {})
Items(schema) == IF schema.items = <<>> THEN Empty ELSE schema.items[1]

\* _resolve_ref / _resolve_schema: one step along "#/components/schemas/<name>"
_resolve_schema(components, schema) ==
    IF schema.ref # ""
    THEN IF schema.ref \in DOMAIN components THEN components[schema.ref] ELSE Empty
    ELSE schema

\* _get_schema_properties
_get_schema_properties(components, schema) ==
    LET s == _resolve_schema(components, schema)
    IN IF s.type = "array"
       THEN _resolve_schema(components, Items(s)).properties
       ELSE s.properties

\* _get_required_fields
_get_required_fields(components, schema) ==
    LET s == _resolve_schema(components, schema)
    IN IF s.type = "array"
       THEN _resolve_schema(components, Items(s)).required
       ELSE s.required

\* what is left of the diff list when RecursionError is raised below
RecursionError == Diff("", "", <<>>, "RecursionError")

\* _diff_nested; depth is the number of its frames on the stack
RECURSIVE _diff_nested(_, _, _, _, _, _, _, _)
_diff_nested(old_c, new_c, old_field, new_field, path, method, field_prefix, depth) ==
    IF depth > RecursionLimit THEN {RecursionError}
    ELSE
    LET old_resolved == _resolve_schema(old_c, old_field)
        new_resolved == _resolve_schema(new_c, new_field)
        old_sub == old_resolved.properties
        new_sub == new_resolved.properties
        Nested(t) == t \in {"object", "array"}
        SubDiffs(sub_name) ==
            (IF old_sub[sub_name].type # new_sub[sub_name].type
             THEN {Diff(path, method, Append(field_prefix, sub_name), "nested_field_type_changed")}
             ELSE {})
            \cup
            (IF \/ Nested(_resolve_schema(old_c, old_sub[sub_name]).type)
                \/ Nested(_resolve_schema(new_c, new_sub[sub_name]).type)
             THEN _diff_nested(old_c, new_c, old_sub[sub_name], new_sub[sub_name],
                               path, method, Append(field_prefix, sub_name), depth + 1)
             ELSE {})
        old_items == Items(old_resolved)
        new_items == Items(new_resolved)
        old_item_type == _resolve_schema(old_c, old_items).type
        new_item_type == _resolve_schema(new_c, new_items).type
    IN (IF old_resolved.type = "object" /\ new_resolved.type = "object"
        THEN {Diff(path, method, Append(field_prefix, sub_name), "nested_field_removed") :
                 sub_name \in DOMAIN old_sub \ DOMAIN new_sub}
             \cup {Diff(path, method, Append(field_prefix, sub_name), "nested_field_added") :
                      sub_name \in DOMAIN new_sub \ DOMAIN old_sub}
             \cup UNION {SubDiffs(sub_name) : sub_name \in DOMAIN old_sub \cap DOMAIN new_sub}
        ELSE {})
       \cup
       (IF old_resolved.type = "array" /\ new_resolved.type = "array"
        THEN (IF /\ old_item_type # "none" /\ new_item_type # "none"
                 /\ old_item_type # new_item_type
              THEN {Diff(path, method, Append(field_prefix, "items"), "array_item_type_changed")}
              ELSE {})
             \cup
             (IF Nested(old_item_type) \/ Nested(new_item_type)
              THEN _diff_nested(old_c, new_c, old_items, new_items, path, method,
                                Append(field_prefix, "items"), depth + 1)
              ELSE {})
        ELSE {})

\* lines 293-327 and 366-400: a field present on both sides
FieldDiffs(old_c, new_c, old_field, new_field, path, method, field) ==
    (IF old_field.type # new_field.type
     THEN {Diff(path, method, field, "field_type_changed")} ELSE {})
    \cup (IF /\ old_field.enum # {} /\ new_field.enum # {}
             /\ old_field.enum \ new_field.enum # {}
          THEN {Diff(path, method, field, "enum_values_removed")} ELSE {})
    \cup _diff_nested(old_c, new_c, old_field, new_field, path, method, field, 1)

\* lines 250-327: the request body
BodyDiffs(old_c, new_c, old_op, new_op, path, method) ==
    IF old_op.content = {} /\ new_op.content = {} THEN {}
    ELSE
    LET old_props == _get_schema_properties(old_c, old_op.schema)
        new_props == _get_schema_properties(new_c, new_op.schema)
        old_required == _get_required_fields(old_c, old_op.schema)
        new_required == _get_required_fields(new_c, new_op.schema)
    IN {Diff(path, method, <<"request", "body", f>>,
             IF f \notin DOMAIN old_props THEN "field_added_required"
             ELSE "field_optional_to_required") : f \in new_required \ old_required}
       \cup {Diff(path, method, <<"request", "body", f>>, "field_removed") :
                f \in DOMAIN old_props \ DOMAIN new_props}
       \cup UNION {FieldDiffs(old_c, new_c, old_props[f], new_props[f], path, method,
                              <<"request", "body", f>>) :
                      f \in DOMAIN old_props \cap DOMAIN new_props}

\* responses.get(status_code, {}) ... .get("schema", {})
RespSchema(op, status_code) ==
    IF status_code \in DOMAIN op.responses THEN op.responses[status_code] ELSE Empty

\* lines 329-400: the response of one status code
ResponseDiffs(old_c, new_c, old_op, new_op, path, method, status_code) ==
    LET old_resp_props == _get_schema_properties(old_c, RespSchema(old_op, status_code))
        new_resp_props == _get_schema_properties(new_c, RespSchema(new_op, status_code))
    IN {Diff(path, method, <<"response", status_code, f>>, "field_removed") :
           f \in DOMAIN old_resp_props \ DOMAIN new_resp_props}
       \cup {Diff(path, method, <<"response", status_code, f>>, "response_structure_changed") :
                f \in {g \in DOMAIN new_resp_props \ DOMAIN old_resp_props :
                          new_resp_props[g].type = "object"}}
       \cup UNION {FieldDiffs(old_c, new_c, old_resp_props[f], new_resp_props[f], path, method,
                              <<"response", status_code, f>>) :
                      f \in DOMAIN old_resp_props \cap DOMAIN new_resp_props}

\* lines 186-220: parameters, keyed by (name, in)
ParamKeys(parameters) == {<<p.name, p.in_>> : p \in parameters}

ParamAt(parameters, key) == CHOOSE p \in parameters : <<p.name, p.in_>> = key

ParameterDiffs(old_op, new_op, path, method) ==
    LET old_keys == ParamKeys(old_op.parameters)
        new_keys == ParamKeys(new_op.parameters)
        Field(key) == <<"parameter", key[2], key[1]>>
    IN {Diff(path, method, Field(key), "parameter_added_required") :
           key \in {k \in new_keys \ old_keys : ParamAt(new_op.parameters, k).required}}
       \cup {Diff(path, method, Field(key), "parameter_removed") : key \in old_keys \ new_keys}
       \cup {Diff(path, method, Field(key), "parameter_type_changed") :
                key \in {k \in old_keys \cap new_keys :
                            ParamAt(old_op.parameters, k).type
                                # ParamAt(new_op.parameters, k).type}}

\* lines 222-249: request content types and security schemes; security is
\* the list of the scheme-name sets of its requirements
ContentSecurityDiffs(old_op, new_op, path, method) ==
    (IF /\ old_op.content # {} /\ new_op.content # {} /\ old_op.content # new_op.content
     THEN {Diff(path, method, <<"request", "content_type">>, "content_type_changed")}
     ELSE {})
    \cup (IF /\ old_op.security # new_op.security
             /\ UNION {old_op.security[i] : i \in 1..Len(old_op.security)}
                    # UNION {new_op.security[i] : i \in 1..Len(new_op.security)}
          THEN {Diff(path, method, <<"security">>, "security_changed")}
          ELSE {})

\* the operation {} (or no entry for the method)
NoOp ==
    [present |-> FALSE, parameters |-> {}, content |-> {}, schema |-> Empty,
     security |-> <<>>, responses |-> NoProps]

\* lines 166-400: one method of one path
OperationDiffs(old_c, new_c, old_op, new_op, path, method) ==
    IF ~old_op.present /\ new_op.present
    THEN {Diff(path, method, <<"operation">>, "operation_added")}
    ELSE IF old_op.present /\ ~new_op.present
    THEN {Diff(path, method, <<"operation">>, "operation_removed")}
    ELSE ParameterDiffs(old_op, new_op, path, method)
         \cup ContentSecurityDiffs(old_op, new_op, path, method)
         \cup BodyDiffs(old_c, new_c, old_op, new_op, path, method)
         \cup UNION {ResponseDiffs(old_c, new_c, old_op, new_op, path, method, status_code) :
                        status_code \in DOMAIN old_op.responses \cup DOMAIN new_op.responses}

\* diff_contracts; the returned list holds each diff once and is given as
\* the set of its entries
diff_contracts(old_spec, new_spec) ==
    LET found ==
            UNION {OperationDiffs(old_spec.components, new_spec.components,
                                  old_spec.paths[method], new_spec.paths[method],
                                  "/a", method) : method \in {"get", "post"}}
    IN IF RecursionError \in found
       THEN [raised |-> TRUE, diffs |-> {}]
       ELSE [raised |-> FALSE, diffs |-> found]

\* components/schemas in which a schema refers to itself: directly, through
\* a second schema, as the item of an array
CyclicComponents ==
    {[n \in {"Node"} |-> Obj([f \in {"child"} |-> Ref("Node")], {})],
     [n \in {"Node", "Leaf"} |->
         Obj([f \in {"child"} |-> Ref(IF n = "Node" THEN "Leaf" ELSE "Node")], {})],
     [n \in {"Node"} |-> Arr(Ref("Node"))]}

\* components/schemas without a cycle
AcyclicComponents ==
    {NoProps,
     [n \in {"Node"} |-> Obj([f \in {"val"} |-> Arr(Scalar("string", {}))], {})],
     [n \in {"Node"} |-> Obj([f \in {"val"} |-> Arr(Scalar("integer", {}))], {})],
     [n \in {"Node", "Leaf"} |->
         IF n = "Node" THEN Obj([f \in {"child"} |-> Ref("Leaf")], {})
         ELSE Obj([f \in {"val"} |-> Scalar("string", {})], {})],
     [n \in {"Node", "Leaf"} |->
         IF n = "Node" THEN Obj([f \in {"child"} |-> Ref("Leaf")], {})
         ELSE Obj([f \in {"val", "extra"} |-> Scalar("integer", {})], {})]}

BodySchemas ==
    {Ref("Node"),
     Arr(Ref("Node")),
     Obj([f \in {"name", "node"} |->
             IF f = "name" THEN Scalar("string", {"a", "b"}) ELSE Ref("Node")], {"name"}),
     Obj([f \in {"name", "node", "extra"} |->
             IF f = "name" THEN Scalar("string", {"a"})
             ELSE IF f = "node" THEN Ref("Node") ELSE Scalar("integer", {})],
         {"name", "node", "extra"})}

ResponseSchemas ==
    {Empty,
     Ref("Node"),
     Obj([f \in {"id"} |-> Scalar("string", {})], {}),
     Obj([f \in {"id", "meta"} |->
             IF f = "id" THEN Scalar("integer", {}) ELSE Obj(NoProps, {})], {})}

ParameterSets ==
    {{},
     {[name |-> "q", in_ |-> "query", required |-> TRUE, type |-> "string"]},
     {[name |-> "q", in_ |-> "query", required |-> FALSE, type |-> "integer"]}}

SecurityLists == {<<>>, <<{"apiKey"}>>}

ContentTypeSets == {{"application/json"}, {"application/json", "application/xml"}}

Operation(parameters, content, schema, security, response) ==
    [present |-> TRUE, parameters |-> parameters, content |-> content, schema |-> schema,
     security |-> security, responses |-> [s \in {"200"} |-> response]]

\* operations with a JSON request body, and one without a body
Operations ==
    {Operation(p, c, b, s, r) : p \in ParameterSets, c \in ContentTypeSets,
                                b \in BodySchemas, s \in SecurityLists, r \in ResponseSchemas}
    \cup {Operation(p, {}, Empty, s, r) :
             p \in ParameterSets, s \in SecurityLists, r \in ResponseSchemas}

\* operations that differ in their schemas only
SchemaOperations ==
    {Operation({}, {"application/json"}, b, <<>>, r) :
        b \in BodySchemas, r \in ResponseSchemas}

\* operations that differ in parameters, content types and security only
PlainOperations ==
    {Operation(p, c, Obj([f \in {"name"} |-> Scalar("string", {})], {}), s, Empty) :
        p \in ParameterSets, c \in ContentTypeSets, s \in SecurityLists}

Document(components, get, post) ==
    [components |-> components, paths |-> [m \in {"get", "post"} |-> IF m = "get" THEN get ELSE post]]

GetOperations == {NoOp, Operation({}, {}, Empty, <<>>, Empty)}

\* a document compared with itself
SamePairs ==
    {[old |-> d, new |-> d, same |-> TRUE] :
        d \in {Document(c, g, p) : c \in CyclicComponents \cup AcyclicComponents,
                                   g \in GetOperations, p \in Operations \cup {NoOp}}}

\* two documents
ChangedPairs ==
    LET SchemaDocs == {Document(c, NoOp, p) : c \in CyclicComponents \cup AcyclicComponents,
                                              p \in SchemaOperations \cup {NoOp}}
        PlainDocs == {Document(NoProps, g, p) : g \in GetOperations,
                                                p \in PlainOperations \cup {NoOp}}
    IN {[old |-> a, new |-> b, same |-> (a = b)] : a \in SchemaDocs, b \in SchemaDocs}
       \cup {[old |-> a, new |-> b, same |-> (a = b)] : a \in PlainDocs, b \in PlainDocs}

\* __main__.py line 405
DiffContracts ==
    /\ dif.pc = "ready"
    /\ LET result == diff_contracts(dif.old, dif.new)
       IN dif' = [dif EXCEPT !.raised = result.raised, !.diffs = result.diffs, !.pc = "done"]

DiffInit ==
    /\ TopoIdle
    /\ guardrails = [ci_required |-> TRUE, max_parallel |-> 1]
    /\ bundles = [b \in Bundles |-> [paths |-> <<CleanPath>>, target_repo |-> "url"]]
    /\ JobInit
    /\ IdleExcept({"dif"})
    /\ \E pair \in SamePairs \cup ChangedPairs :
          dif = [old |-> pair.old, new |-> pair.new, same |-> pair.same,
                 raised |-> FALSE, diffs |-> {}, pc |-> "ready"]

DiffNext ==
    /\ DiffContracts
    /\ UNCHANGED <<topoVars, jobVars>>
    /\ FrameExcept({"dif"})

SpecDiff == DiffInit /\ [][DiffNext]_vars

\* C29: diff_contracts of a document with itself returns the empty list.
C29_SelfDiffEmpty ==
    (dif.pc = "done" /\ dif.same) => (~dif.raised /\ dif.diffs = {})

\* C30: diff_contracts returns a diff list for every pair of documents, also
\* when a schema refers to itself through $ref: the walk of _diff_nested ends
\* before the recursion limit.
C30_DiffReturns == dif.pc = "done" => ~dif.raised

(***************************************************************************)
(* SpecTopo: topological_sort applied to every graph within the bound      *)
(***************************************************************************)
TopoInit ==
    /\ graph \in Graphs
    /\ tpc = "input"
    /\ waves = Returned(<<>>)
    /\ guardrails = [ci_required |-> TRUE, max_parallel |-> 1]
    /\ bundles = [b \in Bundles |-> [paths |-> <<CleanPath>>, target_repo |-> "url"]]
    /\ JobInit
    /\ LibIdle

TopoNext == TopoSort /\ UNCHANGED <<jobVars, libVars>>

SpecTopo == TopoInit /\ [][TopoNext]_vars

====
